---- MODULE Spec2Model ----
(***************************************************************************)
(* NepaliLegalParser (src/src/ingestion/parser.py): the segmentation of a  *)
(* sequence of text lines into Act -> Part -> Chapter -> Section -> Clause.*)
(*                                                                         *)
(* A Python str is modelled as the sequence of its Unicode code points, so *)
(* that the regular expressions and the numeral conversion are computed on *)
(* characters and are not the identity.  A pydantic object is a record; its*)
(* "kind" field tells the class, and its "src" field (the 1-based index of *)
(* the line it was created at, 0 for a synthesized object) stands for the  *)
(* identity of the Python object.                                          *)
(***************************************************************************)
EXTENDS Integers, Sequences, FiniteSets, TLC

(***************************************************************************)
(* Characters                                                              *)
(***************************************************************************)
\* U+0966..U+096F, the keys of NEPALI_TO_ENGLISH
DevanagariDigits == 2406..2415
\* '0'..'9'
AsciiDigits == 48..57
\* the class [०-९0-9] of the marker patterns and of extract_number
ReDigit == DevanagariDigits \cup AsciiDigits
\* characters c with c.isdigit() that are outside ReDigit: superscript two and
\* the Arabic-Indic digits stand for the rest of Unicode's digit characters
OtherDigits == {178} \cup (1632..1641)
\* c.isdigit() or '०' <= c <= '९'
PyIsDigitOrDevanagari == AsciiDigits \cup DevanagariDigits \cup OtherDigits
\* \s of a Python 3 str pattern, which is also what str.strip() removes
Space == {9, 10, 11, 12, 13, 28, 29, 30, 31, 32, 133, 160, 5760, 8232, 8233, 8239, 8287, 12288}
             \cup (8192..8202)
\* [\s-]
MarkerSep == Space \cup {45}
\* [\(（] and [\)）]
OpenBracket == {40, 65288}
CloseBracket == {41, 65289}
\* [:।\.]
ClauseSeparator == {58, 2404, 46}
\* [क-ज्ञa-z]: inside a character class this is the range U+0915..U+091C, the
\* sign U+094D (virama), the letter U+091E, and the range a-z
ClauseLabel == (2325..2332) \cup {2381} \cup {2334} \cup (97..122)
NewLine == <<10>>
Blank == <<32>>

(***************************************************************************)
(* Keywords and fixed strings                                              *)
(***************************************************************************)
\* 'भाग' = U+092D U+093E U+0917
KW_PART == <<2349, 2366, 2327>>
\* 'परिच्छेद'
KW_CHAPTER == <<2346, 2352, 2367, 2330, 2381, 2331, 2375, 2342>>
\* 'दफा' = U+0926 U+092B U+093E
KW_SECTION == <<2342, 2347, 2366>>
\* 'धारा'
KW_DHARA == <<2343, 2366, 2352, 2366>>
\* 'ऐन' = U+0910 U+0928
KW_ACT == <<2320, 2344>>
\* 'www.' and 'http'
WWW == <<119, 119, 119, 46>>
HTTP == <<104, 116, 116, 112>>
\* "Unknown Act"
UnknownAct == <<85, 110, 107, 110, 111, 119, 110, 32, 65, 99, 116>>
\* "सामान्य (General)"
GeneralTitle == <<2360, 2366, 2350, 2366, 2344, 2381, 2351, 32, 40, 71, 101, 110, 101, 114, 97, 108, 41>>
\* "1"
StrOne == <<49>>
EmptyStr == <<>>

(***************************************************************************)
(* str operations                                                          *)
(***************************************************************************)
\* the first index k >= j with text[k] \notin S, Len(text)+1 if there is none
SkipWhile(text, j, S) ==
    CHOOSE k \in j..(Len(text) + 1) :
        /\ (k = Len(text) + 1 \/ text[k] \notin S)
        /\ \A m \in j..(k - 1) : text[m] \in S

\* the first index k >= j with text[k] \in S, Len(text)+1 if there is none
FirstIn(text, j, S) ==
    CHOOSE k \in j..(Len(text) + 1) :
        /\ (k = Len(text) + 1 \/ text[k] \in S)
        /\ \A m \in j..(k - 1) : text[m] \notin S

\* kw occurs in text at offset k (0-based)
OccursAt(kw, text, k) == \A j \in 1..Len(kw) : text[k + j] = kw[j]

\* kw in text
Contains(text, kw) == \E k \in 0..(Len(text) - Len(kw)) : OccursAt(kw, text, k)

\* any(c in S for c in text)
AnyIn(text, S) == \E k \in 1..Len(text) : text[k] \in S

\* text.strip()
Strip(text) ==
    LET first == SkipWhile(text, 1, Space)
        keep == {k \in 1..Len(text) : text[k] \notin Space}
        last == IF keep = {} THEN 0 ELSE CHOOSE k \in keep : \A m \in keep : m <= k
    IN  IF first > last THEN EmptyStr ELSE SubSeq(text, first, last)

\* sep.join(parts)
RECURSIVE Join(_, _)
Join(sep, parts) ==
    IF Len(parts) = 0 THEN EmptyStr
    ELSE IF Len(parts) = 1 THEN parts[1]
    ELSE parts[1] \o sep \o Join(sep, Tail(parts))

\* text.split('\n'): always at least one piece
RECURSIVE SplitLines(_)
SplitLines(text) ==
    LET nl == FirstIn(text, 1, {10})
    IN  IF nl > Len(text) THEN <<text>>
        ELSE <<SubSeq(text, 1, nl - 1)>> \o SplitLines(SubSeq(text, nl + 1, Len(text)))

\* str(n) for n >= 0
RECURSIVE Str(_)
Str(n) == IF n < 10 THEN <<48 + n>> ELSE Str(n \div 10) \o <<48 + (n % 10)>>

(***************************************************************************)
(* Numeral normalizer                                                      *)
(***************************************************************************)
\* the class-level table, in insertion order: <<Devanagari digit, ASCII digit>>
NEPALI_TO_ENGLISH == [d \in 1..10 |-> <<2406 + (d - 1), 48 + (d - 1)>>]

\* what the loop "for nep, eng in table: text = text.replace(nep, eng)" makes of
\* one character c, from table entry d on; every key is a single character, so
\* each replace maps the characters of text one by one
RECURSIVE ReplaceFrom(_, _)
ReplaceFrom(c, d) ==
    IF d > Len(NEPALI_TO_ENGLISH) THEN c
    ELSE IF c = NEPALI_TO_ENGLISH[d][1] THEN ReplaceFrom(NEPALI_TO_ENGLISH[d][2], d + 1)
    ELSE ReplaceFrom(c, d + 1)

\* nepali_to_english_num with text.replace(nep, eng, 1): only the first occurrence
\* of each digit is replaced
nepali_to_english_num_first_only(text) ==
    [k \in 1..Len(text) |->
        IF \E j \in 1..(k - 1) : text[j] = text[k] THEN text[k] ELSE ReplaceFrom(text[k], 1)]

nepali_to_english_num(text) == [k \in 1..Len(text) |-> ReplaceFrom(text[k], 1)]

\* extract_number without the conversion of the match to ASCII digits
extract_number_raw(text) ==
    LET first == FirstIn(text, 1, ReDigit)
        stop == SkipWhile(text, first, ReDigit)
    IN  IF first > Len(text) THEN EmptyStr ELSE SubSeq(text, first, stop - 1)

\* extract_number with the pattern [०-९0-9] in place of [०-९0-9]+
extract_number_one_digit(text) ==
    LET first == FirstIn(text, 1, ReDigit)
    IN  IF first > Len(text) THEN EmptyStr
        ELSE nepali_to_english_num(SubSeq(text, first, first))

\* re.search(r'[०-९0-9]+', text): the leftmost, longest run
extract_number(text) ==
    LET first == FirstIn(text, 1, ReDigit)
        stop == SkipWhile(text, first, ReDigit)
    IN  IF first > Len(text) THEN EmptyStr
        ELSE nepali_to_english_num(SubSeq(text, first, stop - 1))

(***************************************************************************)
(* Marker classifier                                                       *)
(***************************************************************************)
\* the marker pattern applied with re.search instead of re.match
MarkerSearch(kw, line) ==
    \E k \in 0..(Len(line) - Len(kw)) :
        /\ OccursAt(kw, line, k)
        /\ LET j == SkipWhile(line, k + Len(kw) + 1, MarkerSep)
           IN  j <= Len(line) /\ line[j] \in ReDigit

\* re.compile(kw + r'[\s-]*[०-९0-9]+').match(line): anchored at the start of
\* the line; the greedy [\s-]* cannot give back a character to the digit class
MarkerMatch(kw, line) ==
    /\ Len(line) >= Len(kw)
    /\ OccursAt(kw, line, 0)
    /\ LET j == SkipWhile(line, Len(kw) + 1, MarkerSep)
       IN  j <= Len(line) /\ line[j] \in ReDigit

part_pattern(line) == MarkerMatch(KW_PART, line)
chapter_pattern(line) == MarkerMatch(KW_CHAPTER, line)
section_pattern(line) == MarkerMatch(KW_SECTION, line)

\* the relaxed tests of the fallback pass
LooseDigit(line) == AnyIn(line, PyIsDigitOrDevanagari)
LoosePart(line) == Contains(line, KW_PART) /\ LooseDigit(line)
LooseChapter(line) == Contains(line, KW_CHAPTER) /\ LooseDigit(line)
LooseSection(line) ==
    (Contains(line, KW_SECTION) \/ Contains(line, KW_DHARA)) /\ LooseDigit(line)

(***************************************************************************)
(* Clause segmenter                                                        *)
(***************************************************************************)
\* clause_pattern = ^\s*[\(（]?([०-९0-9]+|[क-ज्ञa-z])[\)）]?\s*[:।\.]?\s*
\* matched at the start of line: [matched, group (the text of group 1), stop (the
\* index of the first character after the match)]
NoClauseMatch == [matched |-> FALSE, group |-> EmptyStr, stop |-> 1]

\* \s* at the end of the pattern; the group is line[from..to-1]
ClauseTail(line, from, to, p) ==
    [matched |-> TRUE, group |-> SubSeq(line, from, to - 1), stop |-> SkipWhile(line, p, Space)]

\* [:।\.]? at position p
ClauseSep(line, from, to, p) ==
    ClauseTail(line, from, to,
               IF p <= Len(line) /\ line[p] \in ClauseSeparator THEN p + 1 ELSE p)

\* [\)）]?\s* after the group
ClauseClose(line, from, to) ==
    ClauseSep(line, from, to,
              SkipWhile(line,
                        IF to <= Len(line) /\ line[to] \in CloseBracket THEN to + 1 ELSE to,
                        Space))

\* ([०-९0-9]+|[क-ज्ञa-z]) at position p
ClauseGroup(line, p) ==
    IF p <= Len(line) /\ line[p] \in ReDigit
    THEN ClauseClose(line, p, SkipWhile(line, p, ReDigit))
    ELSE IF p <= Len(line) /\ line[p] \in ClauseLabel
    THEN ClauseClose(line, p, p + 1)
    ELSE NoClauseMatch

\* [\(（]? at position p
ClauseOpen(line, p) ==
    ClauseGroup(line, IF p <= Len(line) /\ line[p] \in OpenBracket THEN p + 1 ELSE p)

\* clause_pattern.match(line): whether it matches, its group 1, and the
\* position after the match
clause_pattern(line) == ClauseOpen(line, SkipWhile(line, 1, Space))

None == [kind |-> "None"]
IsNone(x) == x.kind = "None"

Clause(id, text) == [kind |-> "Clause", clause_id |-> id, content |-> text]

RECURSIVE DetectLoop(_, _, _, _)
\* lines 66-86: the loop body of detect_clauses for line k, m its match
DetectStep(lines, k, clauses, current, m) ==
    IF m.matched
    THEN DetectLoop(lines, k + 1,
                    IF IsNone(current) THEN clauses ELSE Append(clauses, current),
                    Clause(nepali_to_english_num(m.group),
                           Strip(SubSeq(lines[k], m.stop, Len(lines[k])))))
    ELSE IF ~IsNone(current)
    THEN DetectLoop(lines, k + 1, clauses,
                    [current EXCEPT !.content = @ \o Blank \o Strip(lines[k])])
    ELSE DetectLoop(lines, k + 1, clauses, current)

\* the loop of detect_clauses from line k on; current is the open Clause
DetectLoop(lines, k, clauses, current) ==
    IF k > Len(lines)
    THEN IF IsNone(current) THEN clauses ELSE Append(clauses, current)
    ELSE DetectStep(lines, k, clauses, current, clause_pattern(lines[k]))

\* detect_clauses that starts with an open Clause without label, so that the
\* lines before the first clause-opening line go to a Clause
detect_clauses_leading_text(content) ==
    DetectLoop(SplitLines(content), 1, <<>>, Clause(EmptyStr, EmptyStr))

\* detect_clauses without the "Add last clause" step of lines 88-90
detect_clauses_drop_last(content) ==
    LET all == DetectLoop(SplitLines(content), 1, <<>>, None)
    IN  IF Len(all) = 0 THEN all ELSE SubSeq(all, 1, Len(all) - 1)

detect_clauses(content) == DetectLoop(SplitLines(content), 1, <<>>, None)

(***************************************************************************)
(* Schema objects (src/src/schema.py); fields the parser never sets are    *)
(* left out                                                                *)
(***************************************************************************)
Part(number, title, at) ==
    [kind |-> "Part", part_number |-> number, title |-> title, chapters |-> <<>>, src |-> at]
Chapter(number, title, at) ==
    [kind |-> "Chapter", chapter_number |-> number, title |-> title, sections |-> <<>>,
     src |-> at]
Section(number, title, at) ==
    [kind |-> "Section", section_number |-> number, title |-> title, content |-> EmptyStr,
     sub_sections |-> <<>>, clauses |-> <<>>, src |-> at]
\* act_year is Optional[str]: <<>> is None, <<y>> is the string y
Act(title, year) ==
    [kind |-> "Act", title |-> title, act_year |-> year, parts |-> <<>>, chapters |-> <<>>]

\* what an attribute access on None raises
AttributeError == [kind |-> "AttributeError"]
IsError(x) == x.kind = "AttributeError"

\* chapter.sections.append(section), part.chapters.append(chapter),
\* act.chapters.append(chapter), act.parts.append(part)
\* chapter.sections.insert(0, section) in place of append
SectionsPrepend(chapter, section) ==
    IF chapter.kind # "Chapter" THEN AttributeError
    ELSE [chapter EXCEPT !.sections = <<section>> \o @]
SectionsAppend(chapter, section) ==
    IF chapter.kind # "Chapter" THEN AttributeError
    ELSE [chapter EXCEPT !.sections = Append(@, section)]
ChaptersAppend(owner, chapter) ==
    IF owner.kind \notin {"Part", "Act"} THEN AttributeError
    ELSE [owner EXCEPT !.chapters = Append(@, chapter)]
PartsAppend(act, part) ==
    IF act.kind # "Act" THEN AttributeError
    ELSE [act EXCEPT !.parts = Append(@, part)]

(***************************************************************************)
(* Title / year extractor                                                  *)
(***************************************************************************)
\* the prefix windows of _find_title and _extract_year
TitleWindow == 50
TitleFallbackWindow == 20
YearWindow == 5
\* len(prev_line) < 5, len(next_line) > 3, len(line) < 5 and len(line) < 4
MinPrevLen == 5
MinNextLen == 3
MinTitleLen == 5
PageNumberLen == 4
\* len(line) < 100 in the fallback pass
MaxSectionTitleLen == 100

Min(a, b) == IF a < b THEN a ELSE b

\* 'www.' in line or 'http' in line
HasUrl(line) == Contains(line, WWW) \/ Contains(line, HTTP)

\* line.isdigit()
IsDigitStr(line) == Len(line) > 0 /\ \A k \in 1..Len(line) : line[k] \in PyIsDigitOrDevanagari

\* the lines of the first window that contain KW_ACT
ActKeywordHits(lines) ==
    {k \in 1..Min(TitleWindow, Len(lines)) : Contains(lines[k], KW_ACT)}

\* TitleAround with the length test of the predecessor, len(line) < 5, applied to
\* the successor as well
TitleAround_same_minimum(lines, k) ==
    LET before == IF /\ k > 1
                     /\ ~section_pattern(lines[k - 1])
                     /\ ~(HasUrl(lines[k - 1]) \/ Len(lines[k - 1]) < MinPrevLen)
                  THEN <<lines[k - 1]>> ELSE <<>>
        after == IF /\ k + 1 <= Len(lines)
                    /\ ~section_pattern(lines[k + 1])
                    /\ ~(HasUrl(lines[k + 1]) \/ Len(lines[k + 1]) < MinPrevLen)
                    /\ ~chapter_pattern(lines[k + 1]) /\ ~part_pattern(lines[k + 1])
                 THEN <<lines[k + 1]>> ELSE <<>>
    IN  Strip(Join(Blank, before \o <<lines[k]>> \o after))

\* lines 325-342: the title built around the Act line at index k
TitleAround(lines, k) ==
    LET before == IF /\ k > 1
                     /\ ~section_pattern(lines[k - 1])
                     /\ ~(HasUrl(lines[k - 1]) \/ Len(lines[k - 1]) < MinPrevLen)
                  THEN <<lines[k - 1]>> ELSE <<>>
        after == IF /\ k + 1 <= Len(lines)
                    /\ ~section_pattern(lines[k + 1])
                    /\ ~HasUrl(lines[k + 1]) /\ Len(lines[k + 1]) > MinNextLen
                    /\ ~chapter_pattern(lines[k + 1]) /\ ~part_pattern(lines[k + 1])
                 THEN <<lines[k + 1]>> ELSE <<>>
    IN  Strip(Join(Blank, before \o <<lines[k]>> \o after))

\* TitleCandidates over the first 50 lines instead of the first 20
TitleCandidates_wide_window(lines) ==
    {k \in 1..Min(TitleWindow, Len(lines)) :
        /\ ~(HasUrl(lines[k]) \/ Len(lines[k]) < MinTitleLen)
        /\ ~(IsDigitStr(lines[k]) \/ (Len(lines[k]) < PageNumberLen /\ LooseDigit(lines[k])))}

\* lines 345-352: the lines of the second window that are neither a URL/footer
\* nor a page number
TitleCandidates(lines) ==
    {k \in 1..Min(TitleFallbackWindow, Len(lines)) :
        /\ ~(HasUrl(lines[k]) \/ Len(lines[k]) < MinTitleLen)
        /\ ~(IsDigitStr(lines[k]) \/ (Len(lines[k]) < PageNumberLen /\ LooseDigit(lines[k])))}

\* _find_title with "" returned where the code returns "Unknown Act"
_find_title_empty_placeholder(lines) ==
    LET hits == ActKeywordHits(lines)
        cand == TitleCandidates(lines)
    IN  IF hits # {} THEN TitleAround(lines, CHOOSE h \in hits : \A g \in hits : h <= g)
        ELSE IF cand # {} THEN lines[CHOOSE c \in cand : \A d \in cand : c <= d]
        ELSE EmptyStr

_find_title(lines) ==
    LET hits == ActKeywordHits(lines)
        cand == TitleCandidates(lines)
    IN  IF hits # {} THEN TitleAround(lines, CHOOSE h \in hits : \A g \in hits : h <= g)
        ELSE IF cand # {} THEN lines[CHOOSE c \in cand : \A d \in cand : c <= d]
        ELSE UnknownAct

\* \d of a str pattern: the decimal digits (superscripts are not among them)
ReDecimal == AsciiDigits \cup DevanagariDigits \cup (1632..1641)

\* re.search(r'[०-९]{4}|[12][09]\d{2}', line) matches at index k
YearAt(line, k) ==
    /\ k + 3 <= Len(line)
    /\ \/ \A j \in 0..3 : line[k + j] \in DevanagariDigits
       \/ /\ line[k] \in {49, 50}
          /\ line[k + 1] \in {48, 57}
          /\ line[k + 2] \in ReDecimal
          /\ line[k + 3] \in ReDecimal

\* the leftmost match in line, as Optional[str]
YearIn(line) ==
    LET at == {k \in 1..Len(line) : YearAt(line, k)}
    IN  IF at = {} THEN <<>>
        ELSE LET k == CHOOSE a \in at : \A b \in at : a <= b
             IN  <<nepali_to_english_num(SubSeq(line, k, k + 3))>>

_extract_year(lines) ==
    LET found == {k \in 1..Min(YearWindow, Len(lines)) : YearIn(lines[k]) # <<>>}
    IN  IF found = {} THEN <<>>
        ELSE YearIn(lines[CHOOSE a \in found : \A b \in found : a <= b])

\* the title line following the marker at index k (1-based)
_get_title_after(lines, k) ==
    IF /\ k + 1 <= Len(lines)
       /\ ~(part_pattern(lines[k + 1]) \/ chapter_pattern(lines[k + 1])
              \/ section_pattern(lines[k + 1]))
    THEN lines[k + 1]
    ELSE EmptyStr

(***************************************************************************)
(* Flush helpers of the strict pass.  Each returns the object(s) the Python*)
(* method mutates in place.                                                *)
(***************************************************************************)
\* section.content = sep.join(buffer); clauses = detect_clauses(...);
\* if clauses: section.clauses = clauses
Finalized(section, sep, buffer) ==
    [section EXCEPT !.content = Join(sep, buffer),
                    !.clauses = detect_clauses(Join(sep, buffer))]

\* _flush_section with "if section:" in place of "if section and chapter is not None:"
_flush_section_unguarded(section, chapter, buffer) ==
    IF ~IsNone(section)
    THEN SectionsAppend(chapter, Finalized(section, NewLine, buffer))
    ELSE chapter

\* _flush_section with ' '.join(buffer) in place of '\n'.join(buffer)
_flush_section_space_joined(section, chapter, buffer) ==
    IF ~IsNone(section) /\ ~IsNone(chapter)
    THEN SectionsAppend(chapter, Finalized(section, Blank, buffer))
    ELSE chapter

\* _flush_section that makes a default Chapter, as the fallback pass does, when
\* none is open
_flush_section_default_chapter(section, chapter, buffer) ==
    IF ~IsNone(section)
    THEN SectionsAppend(IF IsNone(chapter) THEN Chapter(StrOne, GeneralTitle, 0) ELSE chapter,
                        Finalized(section, NewLine, buffer))
    ELSE chapter

\* the chapter after _flush_section(section, chapter, buffer)
_flush_section(section, chapter, buffer) ==
    IF ~IsNone(section) /\ ~IsNone(chapter)
    THEN SectionsAppend(chapter, Finalized(section, NewLine, buffer))
    ELSE chapter

\* the act after _flush_part(part, act)
_flush_part(part, act) == IF ~IsNone(part) THEN PartsAppend(act, part) ELSE act

\* _flush_chapter without the "else: act.chapters.append(chapter)" branch
_flush_chapter_part_only(chapter, part, act) ==
    IF ~IsNone(chapter) /\ ~IsNone(part)
    THEN [part |-> ChaptersAppend(part, chapter), act |-> act]
    ELSE [part |-> part, act |-> act]

\* _flush_chapter followed by _flush_part, as at a Part marker
_flush_chapter_and_part(chapter, part, act) ==
    IF IsNone(chapter) THEN [part |-> part, act |-> _flush_part(part, act)]
    ELSE IF ~IsNone(part)
    THEN [part |-> ChaptersAppend(part, chapter),
          act |-> _flush_part(ChaptersAppend(part, chapter), act)]
    ELSE [part |-> part, act |-> ChaptersAppend(act, chapter)]

\* _flush_chapter without the "if part:" branch: the Chapter always goes to the Act
_flush_chapter_to_act(chapter, part, act) ==
    IF IsNone(chapter) THEN [part |-> part, act |-> act]
    ELSE [part |-> part, act |-> ChaptersAppend(act, chapter)]

\* the part and the act after _flush_chapter(chapter, part, act)
_flush_chapter(chapter, part, act) ==
    IF IsNone(chapter) THEN [part |-> part, act |-> act]
    ELSE IF ~IsNone(part) THEN [part |-> ChaptersAppend(part, chapter), act |-> act]
    ELSE [part |-> part, act |-> ChaptersAppend(act, chapter)]


(***************************************************************************)
(* Inputs: what extract_text leaves in self.text_lines, a sequence of      *)
(* stripped, non-empty lines                                               *)
(***************************************************************************)
MaxLines == 4

\* "भाग १": a Part marker
LPart == <<2349, 2366, 2327, 32, 2407>>
\* "परिच्छेद-२": a Chapter marker
LChapter == <<2346, 2352, 2367, 2330, 2381, 2331, 2375, 2342, 45, 2408>>
\* "दफा ५ मातहत": a Section marker with trailing text
LSection == <<2342, 2347, 2366, 32, 2411, 32, 2350, 2366, 2340, 2361, 2340>>
\* "(१) क": a numbered clause line
LClause == <<40, 2407, 41, 32, 2325>>
\* "पाठ": plain text
LText == <<2346, 2366, 2336>>
\* "यो दफा 7": the Section keyword and a digit, not at the start of the line
LLooseSection == <<2351, 2379, 32, 2342, 2347, 2366, 32, 55>>
\* "विभाग 4": the Part keyword inside a word, and a digit
LLoosePart == <<2357, 2367, 2349, 2366, 2327, 32, 52>>
\* "२ परिच्छेद": a digit before the Chapter keyword
LLooseChapter == <<2408, 32, 2346, 2352, 2367, 2330, 2381, 2331, 2375, 2342>>
\* U+094D U+0915: a line that starts with the sign virama
LVirama == <<2381, 2325>>

LineSet == {LPart, LChapter, LSection, LClause, LText, LLooseSection, LLoosePart,
            LLooseChapter, LVirama}

\* Scenario A: "भाग १", "भाग शीर्षक", "परिच्छेद १", "अध्याय शीर्षक", "दफा १",
\* "खण्ड शीर्षक", "(1) पहिलो पाठ", "(2) दोस्रो पाठ", "दफा २", "दोस्रो दफा content"
ScenarioA == <<
    <<2349, 2366, 2327, 32, 2407>>,
    <<2349, 2366, 2327, 32, 2358, 2368, 2352, 2381, 2359, 2325>>,
    <<2346, 2352, 2367, 2330, 2381, 2331, 2375, 2342, 32, 2407>>,
    <<2309, 2343, 2381, 2351, 2366, 2351, 32, 2358, 2368, 2352, 2381, 2359, 2325>>,
    <<2342, 2347, 2366, 32, 2407>>,
    <<2326, 2339, 2381, 2337, 32, 2358, 2368, 2352, 2381, 2359, 2325>>,
    <<40, 49, 41, 32, 2346, 2361, 2367, 2354, 2379, 32, 2346, 2366, 2336>>,
    <<40, 50, 41, 32, 2342, 2379, 2360, 2381, 2352, 2379, 32, 2346, 2366, 2336>>,
    <<2342, 2347, 2366, 32, 2408>>,
    <<2342, 2379, 2360, 2381, 2352, 2379, 32, 2342, 2347, 2366, 32, 99, 111, 110, 116,
      101, 110, 116>> >>

(***************************************************************************)
(* State of one parse() invocation                                         *)
(***************************************************************************)
VARIABLES
    text_lines,       \* self.text_lines
    pc,               \* "start", "strict", "guard", "fallback", "done", "raised";
                      \* "idle" while parse is not running
    i,                \* 1-based index of the line the running loop reads next
    act,              \* the Act under construction (None before parse creates it)
    current_part, current_chapter, current_section, content_buffer,
    exc,              \* the exception parse raised, "none" if none
    strict_result,    \* history: the Act as the strict pass left it (None before)
    fallback_runs,    \* history: how many times the fallback pass was entered
    fn,               \* the method under call: "parse", or a helper called on its own
    arg,              \* the argument of a helper called on its own
    ret,              \* the values returned so far by the calls made, oldest first
    suspended,        \* the parse() invocations that are not executing: their frames
    html              \* the frame of NepaliHTMLParser.parse (None if it is not called)

vars == <<text_lines, pc, i, act, current_part, current_chapter, current_section,
          content_buffer, exc, strict_result, fallback_runs, fn, arg, ret, suspended, html>>

Init ==
    /\ \/ \E n \in 0..MaxLines : text_lines \in [1..n -> LineSet]
       \/ text_lines = ScenarioA
    /\ pc = "start"
    /\ i = 1
    /\ act = None
    /\ current_part = None
    /\ current_chapter = None
    /\ current_section = None
    /\ content_buffer = <<>>
    /\ exc = "none"
    /\ strict_result = None
    /\ fallback_runs = 0
    /\ fn = "parse"
    /\ arg = <<>>
    /\ ret = <<>>
    /\ suspended = <<>>
    /\ html = None

\* One step of a loop: the new values of the locals, or the exception if the
\* step dereferenced None (one of touched is then AttributeError)
Commit(touched, nact, npart, nchapter, nsection, nbuffer) ==
    IF \E t \in touched : IsError(t)
    THEN /\ pc' = "raised"
         /\ exc' = "AttributeError"
         /\ UNCHANGED <<suspended, html, fn, arg, ret, text_lines, i, act, current_part,
                        current_chapter,
                        current_section, content_buffer, strict_result, fallback_runs>>
    ELSE /\ act' = nact
         /\ current_part' = npart
         /\ current_chapter' = nchapter
         /\ current_section' = nsection
         /\ content_buffer' = nbuffer
         /\ i' = i + 1
         /\ UNCHANGED <<suspended, html, fn, arg, ret, text_lines, pc, exc,
                        strict_result, fallback_runs>>

\* lines 96-109: build the Act, clear the locals
ParseStart ==
    /\ pc = "start"
    /\ act' = Act(_find_title(text_lines), _extract_year(text_lines))
    /\ current_part' = None
    /\ current_chapter' = None
    /\ current_section' = None
    /\ content_buffer' = <<>>
    /\ i' = 1
    /\ pc' = "strict"
    /\ UNCHANGED <<suspended, html, fn, arg, ret, text_lines, exc, strict_result,
                   fallback_runs>>

(***************************************************************************)
(* Strict pass, one action per branch of the loop body                     *)
(***************************************************************************)
InStrictLoop == pc = "strict" /\ i <= Len(text_lines)

StrictPart ==
    /\ InStrictLoop
    /\ part_pattern(text_lines[i])
    /\ \E ch \in {_flush_section(current_section, current_chapter, content_buffer)} :
       \E pa \in {_flush_chapter(ch, current_part, act)} :
       \E a2 \in {_flush_part(pa.part, pa.act)} :
           Commit({ch, pa.part, pa.act, a2}, a2,
                  Part(extract_number(text_lines[i]), _get_title_after(text_lines, i), i),
                  None, None, <<>>)

StrictChapter ==
    /\ InStrictLoop
    /\ ~part_pattern(text_lines[i])
    /\ chapter_pattern(text_lines[i])
    /\ \E ch \in {_flush_section(current_section, current_chapter, content_buffer)} :
       \E pa \in {_flush_chapter(ch, current_part, act)} :
           Commit({ch, pa.part, pa.act}, pa.act, pa.part,
                  Chapter(extract_number(text_lines[i]), _get_title_after(text_lines, i), i),
                  None, <<>>)

StrictSection ==
    /\ InStrictLoop
    /\ ~part_pattern(text_lines[i])
    /\ ~chapter_pattern(text_lines[i])
    /\ section_pattern(text_lines[i])
    /\ \E ch \in {_flush_section(current_section, current_chapter, content_buffer)} :
           Commit({ch}, act, current_part, ch,
                  Section(extract_number(text_lines[i]), _get_title_after(text_lines, i), i),
                  <<>>)

\* any other line is appended to the buffer if a Section is open
StrictContent ==
    /\ InStrictLoop
    /\ ~part_pattern(text_lines[i])
    /\ ~chapter_pattern(text_lines[i])
    /\ ~section_pattern(text_lines[i])
    /\ Commit({}, act, current_part, current_chapter, current_section,
              IF ~IsNone(current_section) THEN Append(content_buffer, text_lines[i])
              ELSE content_buffer)

\* lines 159-162: flush what is still open
StrictFlush ==
    /\ pc = "strict"
    /\ i > Len(text_lines)
    /\ \E ch \in {_flush_section(current_section, current_chapter, content_buffer)} :
       \E pa \in {_flush_chapter(ch, current_part, act)} :
       \E a2 \in {_flush_part(pa.part, pa.act)} :
           IF IsError(ch) \/ IsError(pa.part) \/ IsError(pa.act) \/ IsError(a2)
           THEN /\ pc' = "raised"
                /\ exc' = "AttributeError"
                /\ UNCHANGED <<act, current_part, current_chapter, strict_result>>
           ELSE /\ pc' = "guard"
                /\ act' = a2
                /\ current_part' = pa.part
                /\ current_chapter' = ch
                /\ strict_result' = a2
                /\ exc' = exc
    /\ UNCHANGED <<suspended, html, fn, arg, ret, text_lines, i, current_section,
                   content_buffer, fallback_runs>>

\* the guard of line 165 extended to trees in which some Chapter has no Section
FallbackNeededNoSections(a) ==
    \/ Len(a.parts) = 0 /\ Len(a.chapters) = 0
    \/ \E k \in 1..Len(a.chapters) : Len(a.chapters[k].sections) = 0

\* the guard of line 165 without its second conjunct
FallbackNeededPartsOnly(a) == Len(a.parts) = 0

\* line 165
FallbackNeeded(a) == Len(a.parts) = 0 /\ Len(a.chapters) = 0

\* lines 165-170: enter the fallback pass
FallbackEnter ==
    /\ pc = "guard"
    /\ FallbackNeeded(act)
    /\ pc' = "fallback"
    /\ fallback_runs' = fallback_runs + 1
    /\ current_part' = None
    /\ current_chapter' = None
    /\ current_section' = None
    /\ content_buffer' = <<>>
    /\ i' = 1
    /\ UNCHANGED <<suspended, html, fn, arg, ret, text_lines, act, exc, strict_result>>

\* lines 165, 284: the strict result is returned
ReturnStrict ==
    /\ pc = "guard"
    /\ ~FallbackNeeded(act)
    /\ pc' = "done"
    /\ UNCHANGED <<suspended, html, fn, arg, ret, text_lines, i, act, current_part,
                   current_chapter,
                   current_section, content_buffer, exc, strict_result, fallback_runs>>

(***************************************************************************)
(* Fallback pass, one action per branch of the loop body                   *)
(***************************************************************************)
InFallbackLoop == pc = "fallback" /\ i <= Len(text_lines)

\* Chapter(chapter_number="1", title="सामान्य (General)", sections=[])
DefaultChapter == Chapter(StrOne, GeneralTitle, 0)

\* "if current_section:" in place of "if current_section and content_buffer:"
FbSectionReady_any_buffer(section, buffer) == ~IsNone(section)

\* "if current_section and content_buffer:" of lines 176, 205, 230 and 259
FbSectionReady(section, buffer) == ~IsNone(section) /\ Len(buffer) > 0

\* lines 176-182 and 205-211: the chapter after the section flush of the Part
\* and Chapter branches; without an open Chapter the Section is not kept
FbFlushSectionIfChapter(section, chapter, buffer) ==
    IF FbSectionReady(section, buffer) /\ ~IsNone(chapter)
    THEN SectionsAppend(chapter, Finalized(section, Blank, buffer))
    ELSE chapter

\* lines 230-243 and 259-270: the chapter after the section flush of the Section
\* branch and of the end of the loop; a default Chapter is made if none is open
FbFlushSectionOrDefault(section, chapter, buffer) ==
    IF FbSectionReady(section, buffer)
    THEN SectionsAppend(IF IsNone(chapter) THEN DefaultChapter ELSE chapter,
                        Finalized(section, Blank, buffer))
    ELSE chapter

\* lines 184-185 and 213-214: the part after
\* "if current_chapter and current_part: current_part.chapters.append(current_chapter)"
FbFlushChapterIntoPart(chapter, part) ==
    IF ~IsNone(chapter) /\ ~IsNone(part) THEN ChaptersAppend(part, chapter) ELSE part

\* "num if num else str(n)"
NumberOr(num, n) == IF Len(num) > 0 THEN num ELSE Str(n)

FbPart ==
    /\ InFallbackLoop
    /\ LoosePart(text_lines[i])
    /\ \E ch \in {FbFlushSectionIfChapter(current_section, current_chapter, content_buffer)} :
       \E pt \in {FbFlushChapterIntoPart(ch, current_part)} :
       \E a2 \in {_flush_part(pt, act)} :
           Commit({ch, pt, a2}, a2,
                  Part(NumberOr(extract_number(text_lines[i]), Len(a2.parts) + 1),
                       text_lines[i], i),
                  None, None, <<>>)

FbChapter ==
    /\ InFallbackLoop
    /\ ~LoosePart(text_lines[i])
    /\ LooseChapter(text_lines[i])
    /\ \E ch \in {FbFlushSectionIfChapter(current_section, current_chapter, content_buffer)} :
       \E pt \in {FbFlushChapterIntoPart(ch, current_part)} :
           Commit({ch, pt}, act, pt,
                  Chapter(NumberOr(extract_number(text_lines[i]),
                                   IF ~IsNone(pt) THEN Len(pt.chapters) + 1 ELSE 1),
                          text_lines[i], i),
                  None, <<>>)

FbSection ==
    /\ InFallbackLoop
    /\ ~LoosePart(text_lines[i])
    /\ ~LooseChapter(text_lines[i])
    /\ LooseSection(text_lines[i])
    /\ \E ch \in {FbFlushSectionOrDefault(current_section, current_chapter, content_buffer)} :
           Commit({ch}, act, current_part, ch,
                  Section(NumberOr(extract_number(text_lines[i]), 1),
                          IF Len(text_lines[i]) < MaxSectionTitleLen THEN text_lines[i]
                          ELSE EmptyStr,
                          i),
                  <<>>)

\* lines 254-256: "elif current_section: content_buffer.append(line)"
FbContent ==
    /\ InFallbackLoop
    /\ ~LoosePart(text_lines[i])
    /\ ~LooseChapter(text_lines[i])
    /\ ~LooseSection(text_lines[i])
    /\ Commit({}, act, current_part, current_chapter, current_section,
              IF ~IsNone(current_section) THEN Append(content_buffer, text_lines[i])
              ELSE content_buffer)

\* lines 258-284: flush what is still open and return
FbFlush ==
    /\ pc = "fallback"
    /\ i > Len(text_lines)
    /\ \E ch \in {FbFlushSectionOrDefault(current_section, current_chapter, content_buffer)} :
       \E pa \in {_flush_chapter(ch, current_part, act)} :
       \E a2 \in {_flush_part(pa.part, pa.act)} :
           IF IsError(ch) \/ IsError(pa.part) \/ IsError(pa.act) \/ IsError(a2)
           THEN /\ pc' = "raised"
                /\ exc' = "AttributeError"
                /\ UNCHANGED <<act, current_part, current_chapter>>
           ELSE /\ pc' = "done"
                /\ act' = a2
                /\ current_part' = pa.part
                /\ current_chapter' = ch
                /\ exc' = exc
    /\ UNCHANGED <<suspended, html, fn, arg, ret, text_lines, i, current_section,
                   content_buffer, strict_result,
                   fallback_runs>>

Next ==
    \/ ParseStart
    \/ StrictPart
    \/ StrictChapter
    \/ StrictSection
    \/ StrictContent
    \/ StrictFlush
    \/ FallbackEnter
    \/ ReturnStrict
    \/ FbPart
    \/ FbChapter
    \/ FbSection
    \/ FbContent
    \/ FbFlush

Spec == Init /\ [][Next]_vars

(***************************************************************************)
(* parse() on inputs whose marker lines may carry a digit that is not a    *)
(* digit of the patterns: '²'.isdigit() holds, [०-९0-9] does not match it  *)
(***************************************************************************)
MaxUnnumberedLines == 4

\* "भाग ²"
LBarePart == <<2349, 2366, 2327, 32, 178>>
\* "परिच्छेद ²"
LBareChapter == <<2346, 2352, 2367, 2330, 2381, 2331, 2375, 2342, 32, 178>>
\* "दफा ²"
LBareSection == <<2342, 2347, 2366, 32, 178>>

\* "Notes about दफा numbering conventions": the Section keyword and no digit
LNotes == <<78, 111, 116, 101, 115, 32, 97, 98, 111, 117, 116, 32, 2342, 2347, 2366, 32,
            110, 117, 109, 98, 101, 114, 105, 110, 103, 32,
            99, 111, 110, 118, 101, 110, 116, 105, 111, 110, 115>>

UnnumberedLineSet == {LPart, LChapter, LSection, LText, LBarePart, LBareChapter, LBareSection,
                      LNotes}

UnnumberedInit ==
    /\ \E n \in 0..MaxUnnumberedLines : text_lines \in [1..n -> UnnumberedLineSet]
    /\ pc = "start"
    /\ i = 1
    /\ act = None
    /\ current_part = None
    /\ current_chapter = None
    /\ current_section = None
    /\ content_buffer = <<>>
    /\ exc = "none"
    /\ strict_result = None
    /\ fallback_runs = 0
    /\ fn = "parse"
    /\ arg = <<>>
    /\ ret = <<>>
    /\ suspended = <<>>
    /\ html = None

UnnumberedSpec == UnnumberedInit /\ [][Next]_vars

(***************************************************************************)
(* The helpers of the parser called on their own, each on inputs drawn     *)
(* from a bounded set                                                      *)
(***************************************************************************)
MaxTextLen == 3
MaxContentLines == 3
MaxTitleLines == 3
MaxYearLines == 2

\* ०, ५, ९, "0", "7", क, " ", "-"
TextAlphabet == {2406, 2411, 2415, 48, 55, 2325, 32, 45}
Texts == UNION {[1..n -> TextAlphabet] : n \in 0..MaxTextLen}

\* "(१२) क": a bracketed two-digit label
CNumbered == <<40, 2407, 2408, 41, 32, 2325>>
\* "ख. पाठ ": a letter label with a separator, and a trailing blank
CLettered == <<2326, 46, 32, 2346, 2366, 2336, 32>>
\* " 3: ": a label with nothing after it
CBare == <<32, 51, 58, 32>>
\* " -क ": no label, blanks on both sides
CPlain == <<32, 45, 2325, 32>>
ContentLineSet == {CNumbered, CLettered, CBare, CPlain, LText, LVirama, EmptyStr}

\* "नेपाल ऐन"
TAct == <<2344, 2375, 2346, 2366, 2354, 32, 2320, 2344>>
\* "दोस्रो ऐन"
TSecondAct == <<2342, 2379, 2360, 2381, 2352, 2379, 32, 2320, 2344>>
\* "www.x.np"
TWww == <<119, 119, 119, 46, 120, 46, 110, 112>>
\* "http://x"
THttp == <<104, 116, 116, 112, 58, 47, 47, 120>>
\* "कखगघ": four characters
TFour == <<2325, 2326, 2327, 2328>>
\* "प्रस्तावना": ten characters
TLong == <<2346, 2381, 2352, 2360, 2381, 2340, 2366, 2357, 2344, 2366>>
\* "२०७४5": five digits
TDigits == <<2408, 2406, 2413, 2410, 53>>
TitleLineSet == {TAct, TSecondAct, TWww, THttp, TFour, TLong, TDigits, LText, LPart, LChapter,
                 LSection}
\* how many lines of plain text come before the lines drawn from TitleLineSet
TitlePads == {0, TitleFallbackWindow - 1, TitleFallbackWindow, TitleWindow - 2, TitleWindow - 1}

\* "२०७४"
YDevanagari == <<2408, 2406, 2413, 2410>>
\* "ई 2019"
YAscii == <<2312, 32, 50, 48, 49, 57>>
\* "1074"
YTen == <<49, 48, 55, 52>>
\* "2974 क"
YTwentyNine == <<50, 57, 55, 52, 32, 2325>>
\* "12019": a run of five digits
YFive == <<49, 50, 48, 49, 57>>
\* "20७४": ASCII and Devanagari digits in one run
YMixed == <<50, 48, 2413, 2410>>
\* "20٠٠": ASCII digits followed by ARABIC-INDIC DIGIT ZERO twice
YArabic == <<50, 48, 1632, 1632>>
\* "207": three digits
YThree == <<50, 48, 55>>
YearLineSet == {YDevanagari, YAscii, YTen, YTwentyNine, YFive, YMixed, YArabic, YThree, LText}
\* how many lines of plain text come before the lines drawn from YearLineSet
YearPads == {0, YearWindow - 1, YearWindow}

FnInit ==
    /\ \/ fn = "nepali_to_english_num" /\ arg \in Texts
       \/ fn = "extract_number" /\ arg \in Texts
       \/ /\ fn = "detect_clauses"
          /\ \E n \in 0..MaxContentLines : \E ls \in [1..n -> ContentLineSet] :
                arg = Join(NewLine, ls)
       \/ /\ fn = "_find_title"
          /\ \E n \in 0..MaxTitleLines : \E ls \in [1..n -> TitleLineSet] :
                \E pad \in TitlePads : arg = [j \in 1..pad |-> LText] \o ls
       \/ /\ fn = "_extract_year"
          /\ \E n \in 0..MaxYearLines : \E ls \in [1..n -> YearLineSet] :
                \E pad \in YearPads : arg = [j \in 1..pad |-> LText] \o ls
    /\ ret = <<>>
    /\ text_lines = <<>>
    /\ pc = "idle"
    /\ i = 1
    /\ act = None
    /\ current_part = None
    /\ current_chapter = None
    /\ current_section = None
    /\ content_buffer = <<>>
    /\ exc = "none"
    /\ strict_result = None
    /\ fallback_runs = 0
    /\ suspended = <<>>
    /\ html = None

parse_locals == <<text_lines, pc, i, act, current_part, current_chapter, current_section,
                  content_buffer, exc, strict_result, fallback_runs>>

\* nepali_to_english_num(arg), and then nepali_to_english_num of what it returned
CallNormalize ==
    /\ fn = "nepali_to_english_num"
    /\ Len(ret) < 2
    /\ ret' = Append(ret, nepali_to_english_num(IF ret = <<>> THEN arg ELSE ret[Len(ret)]))
    /\ UNCHANGED <<fn, arg, parse_locals, suspended, html>>

CallExtractNumber ==
    /\ fn = "extract_number"
    /\ ret = <<>>
    /\ ret' = <<extract_number(arg)>>
    /\ UNCHANGED <<fn, arg, parse_locals, suspended, html>>

CallDetectClauses ==
    /\ fn = "detect_clauses"
    /\ ret = <<>>
    /\ ret' = <<detect_clauses(arg)>>
    /\ UNCHANGED <<fn, arg, parse_locals, suspended, html>>

CallFindTitle ==
    /\ fn = "_find_title"
    /\ ret = <<>>
    /\ ret' = <<_find_title(arg)>>
    /\ UNCHANGED <<fn, arg, parse_locals, suspended, html>>

\* Optional[str] as a sequence: <<>> for None, <<year>> otherwise
CallExtractYear ==
    /\ fn = "_extract_year"
    /\ ret = <<>>
    /\ ret' = <<_extract_year(arg)>>
    /\ UNCHANGED <<fn, arg, parse_locals, suspended, html>>

FnNext ==
    \/ CallNormalize
    \/ CallExtractNumber
    \/ CallDetectClauses
    \/ CallFindTitle
    \/ CallExtractYear

FnSpec == FnInit /\ [][FnNext]_vars

(***************************************************************************)
(* Two parse() invocations on two parser instances.  What an invocation    *)
(* owns is its frame: self.text_lines and the locals of parse.  The        *)
(* variables hold the frame of the invocation that executes; a switch      *)
(* happens between two loop steps.  parse(arg[1]) and parse(arg[2]) are    *)
(* first called one after the other, then both together.                   *)
(***************************************************************************)
MaxPairLines == 2

PairLineSet == {LPart, LChapter, LSection, LText, LLoosePart, LLooseChapter}
\* the documents the second instance is given
OtherDocs == {<<LChapter, LSection, LClause>>, <<LLooseSection, LText>>}

\* the frame of the executing invocation
Context ==
    [text_lines |-> text_lines, pc |-> pc, i |-> i, act |-> act,
     current_part |-> current_part, current_chapter |-> current_chapter,
     current_section |-> current_section, content_buffer |-> content_buffer,
     exc |-> exc, strict_result |-> strict_result, fallback_runs |-> fallback_runs]

\* the frame of an invocation on a new instance whose text is lines
Fresh(lines) ==
    [text_lines |-> lines, pc |-> "start", i |-> 1, act |-> None,
     current_part |-> None, current_chapter |-> None, current_section |-> None,
     content_buffer |-> <<>>, exc |-> "none", strict_result |-> None, fallback_runs |-> 0]

\* content_buffer as one list that all invocations share
ResumedBuffer_shared(ctx) == content_buffer

\* line 109: content_buffer is a local of parse, one list per invocation
ResumedBuffer(ctx) == ctx.content_buffer

\* the invocation whose frame is ctx executes next
Resume(ctx) ==
    /\ text_lines' = ctx.text_lines
    /\ pc' = ctx.pc
    /\ i' = ctx.i
    /\ act' = ctx.act
    /\ current_part' = ctx.current_part
    /\ current_chapter' = ctx.current_chapter
    /\ current_section' = ctx.current_section
    /\ content_buffer' = ResumedBuffer(ctx)
    /\ exc' = ctx.exc
    /\ strict_result' = ctx.strict_result
    /\ fallback_runs' = ctx.fallback_runs

PairInit ==
    /\ fn = "parse"
    /\ \E n \in 0..MaxPairLines : \E a \in [1..n -> PairLineSet] : \E b \in OtherDocs :
          a # b /\ arg = <<a, b>>
    /\ ret = <<>>
    /\ suspended = <<>>
    /\ html = None
    /\ text_lines = arg[1]
    /\ pc = "start"
    /\ i = 1
    /\ act = None
    /\ current_part = None
    /\ current_chapter = None
    /\ current_section = None
    /\ content_buffer = <<>>
    /\ exc = "none"
    /\ strict_result = None
    /\ fallback_runs = 0

\* parse(arg[1]) has returned with no other invocation alive; call parse(arg[2])
CallSecondAlone ==
    /\ pc = "done"
    /\ ret = <<>>
    /\ suspended = <<>>
    /\ ret' = <<act>>
    /\ Resume(Fresh(arg[2]))
    /\ UNCHANGED <<fn, arg, suspended, html>>

\* parse(arg[2]) has returned as well; call both, on new instances
CallBoth ==
    /\ pc = "done"
    /\ Len(ret) = 1
    /\ suspended = <<>>
    /\ ret' = Append(ret, act)
    /\ Resume(Fresh(arg[1]))
    /\ suspended' = <<Fresh(arg[2])>>
    /\ UNCHANGED <<fn, arg, html>>

\* the executing invocation is preempted between two steps and the other one
\* goes on
Switch ==
    /\ Len(suspended) = 1
    /\ suspended' = <<Context>>
    /\ Resume(suspended[1])
    /\ UNCHANGED <<fn, arg, ret, html>>

PairNext ==
    \/ Next
    \/ CallSecondAlone
    \/ CallBoth
    \/ Switch

PairSpec == PairInit /\ [][PairNext]_vars

(***************************************************************************)
(* NepaliHTMLParser.parse (html_parser.py) on the lines that                *)
(* NepaliLegalParser.parse was given.  Its patterns, extract_number,        *)
(* _flush_chapter, _flush_part, _get_title_after and _extract_year are      *)
(* copies of those of parser.py, so the operators above stand for them.     *)
(***************************************************************************)
MaxHtmlLines == 3

\* html_parser.py 193-199
html_find_title(lines) ==
    IF Len(lines) >= 2 THEN lines[1] \o Blank \o lines[2]
    ELSE IF Len(lines) = 1 THEN lines[1]
    ELSE UnknownAct

\* html_parser.py _flush_section with the detect_clauses call of parser.py
html_flush_section_with_clauses(section, chapter, buffer) ==
    _flush_section(section, chapter, buffer)

\* html_parser.py 164-168: the chapter after _flush_section
html_flush_section(section, chapter, buffer) ==
    IF ~IsNone(section) /\ ~IsNone(chapter)
    THEN SectionsAppend(chapter, [section EXCEPT !.content = Join(NewLine, buffer)])
    ELSE chapter

\* the frame of NepaliHTMLParser.parse before its first statement
HtmlFresh ==
    [kind |-> "Frame", pc |-> "start", i |-> 1, act |-> None, current_part |-> None,
     current_chapter |-> None, current_section |-> None, content_buffer |-> <<>>]

HtmlInit ==
    /\ \E n \in 0..MaxHtmlLines : text_lines \in [1..n -> LineSet]
    /\ pc = "start"
    /\ i = 1
    /\ act = None
    /\ current_part = None
    /\ current_chapter = None
    /\ current_section = None
    /\ content_buffer = <<>>
    /\ exc = "none"
    /\ strict_result = None
    /\ fallback_runs = 0
    /\ fn = "parse"
    /\ arg = <<>>
    /\ ret = <<>>
    /\ suspended = <<>>
    /\ html = HtmlFresh

\* NepaliHTMLParser.parse is called once NepaliLegalParser.parse has returned
HtmlRuns(at) == pc = "done" /\ ~IsNone(html) /\ html.pc = at
InHtmlLoop == HtmlRuns("loop") /\ html.i <= Len(text_lines)

\* the frame after one step of the loop
HtmlStep(nact, npart, nchapter, nsection, nbuffer) ==
    /\ html' = [html EXCEPT !.act = nact, !.current_part = npart, !.current_chapter = nchapter,
                            !.current_section = nsection, !.content_buffer = nbuffer,
                            !.i = @ + 1]
    /\ UNCHANGED <<fn, arg, ret, parse_locals, suspended>>

\* html_parser.py 94-107
HtmlStart ==
    /\ HtmlRuns("start")
    /\ html' = [HtmlFresh EXCEPT !.pc = "loop",
                                 !.act = Act(html_find_title(text_lines),
                                             _extract_year(text_lines))]
    /\ UNCHANGED <<fn, arg, ret, parse_locals, suspended>>

\* html_parser.py 111-124
HtmlPart ==
    /\ InHtmlLoop
    /\ part_pattern(text_lines[html.i])
    /\ \E ch \in {html_flush_section(html.current_section, html.current_chapter,
                                      html.content_buffer)} :
       \E pa \in {_flush_chapter(ch, html.current_part, html.act)} :
           HtmlStep(_flush_part(pa.part, pa.act),
                    Part(extract_number(text_lines[html.i]),
                         _get_title_after(text_lines, html.i), html.i),
                    None, None, <<>>)

\* html_parser.py 127-138
HtmlChapter ==
    /\ InHtmlLoop
    /\ ~part_pattern(text_lines[html.i])
    /\ chapter_pattern(text_lines[html.i])
    /\ \E ch \in {html_flush_section(html.current_section, html.current_chapter,
                                      html.content_buffer)} :
       \E pa \in {_flush_chapter(ch, html.current_part, html.act)} :
           HtmlStep(pa.act, pa.part,
                    Chapter(extract_number(text_lines[html.i]),
                            _get_title_after(text_lines, html.i), html.i),
                    None, <<>>)

\* html_parser.py 141-151
HtmlSection ==
    /\ InHtmlLoop
    /\ ~part_pattern(text_lines[html.i])
    /\ ~chapter_pattern(text_lines[html.i])
    /\ section_pattern(text_lines[html.i])
    /\ HtmlStep(html.act, html.current_part,
                html_flush_section(html.current_section, html.current_chapter,
                                   html.content_buffer),
                Section(extract_number(text_lines[html.i]),
                        _get_title_after(text_lines, html.i), html.i),
                <<>>)

\* html_parser.py 154-155
HtmlContent ==
    /\ InHtmlLoop
    /\ ~part_pattern(text_lines[html.i])
    /\ ~chapter_pattern(text_lines[html.i])
    /\ ~section_pattern(text_lines[html.i])
    /\ HtmlStep(html.act, html.current_part, html.current_chapter, html.current_section,
                IF ~IsNone(html.current_section)
                THEN Append(html.content_buffer, text_lines[html.i])
                ELSE html.content_buffer)

\* html_parser.py 158-162: flush what is still open and return the Act
HtmlFlush ==
    /\ HtmlRuns("loop")
    /\ html.i > Len(text_lines)
    /\ \E ch \in {html_flush_section(html.current_section, html.current_chapter,
                                      html.content_buffer)} :
       \E pa \in {_flush_chapter(ch, html.current_part, html.act)} :
           html' = [html EXCEPT !.pc = "done", !.current_chapter = ch,
                                !.current_part = pa.part,
                                !.act = _flush_part(pa.part, pa.act)]
    /\ UNCHANGED <<fn, arg, ret, parse_locals, suspended>>

HtmlNext ==
    \/ Next
    \/ HtmlStart
    \/ HtmlPart
    \/ HtmlChapter
    \/ HtmlSection
    \/ HtmlContent
    \/ HtmlFlush

HtmlSpec == HtmlInit /\ [][HtmlNext]_vars

(***************************************************************************)
(* Properties                                                              *)
(***************************************************************************)
\* a Python str: a finite sequence of code points
IsStr(x) == \A k \in 1..Len(x) : x[k] \in Nat

WellFormedClause(c) == c.kind = "Clause" /\ IsStr(c.clause_id) /\ IsStr(c.content)
WellFormedSection(x) ==
    /\ x.kind = "Section"
    /\ IsStr(x.section_number) /\ IsStr(x.title) /\ IsStr(x.content)
    /\ \A k \in 1..Len(x.clauses) : WellFormedClause(x.clauses[k])
WellFormedChapter(c) ==
    /\ c.kind = "Chapter"
    /\ IsStr(c.chapter_number) /\ IsStr(c.title)
    /\ \A k \in 1..Len(c.sections) : WellFormedSection(c.sections[k])
WellFormedPart(q) ==
    /\ q.kind = "Part"
    /\ IsStr(q.part_number) /\ IsStr(q.title)
    /\ \A k \in 1..Len(q.chapters) : WellFormedChapter(q.chapters[k])
WellFormedAct(a) ==
    /\ a.kind = "Act"
    /\ IsStr(a.title)
    /\ Len(a.act_year) <= 1
    /\ \A k \in 1..Len(a.act_year) : IsStr(a.act_year[k])
    /\ \A k \in 1..Len(a.parts) : WellFormedPart(a.parts[k])
    /\ \A k \in 1..Len(a.chapters) : WellFormedChapter(a.chapters[k])

\* where a Chapter sits in a tree: <<0, k>> is a.chapters[k], <<q, k>> with
\* q > 0 is a.parts[q].chapters[k]
ChapterSlots(a) ==
    {<<0, k>> : k \in 1..Len(a.chapters)}
        \cup UNION {{<<q, k>> : k \in 1..Len(a.parts[q].chapters)} : q \in 1..Len(a.parts)}
ChapterAt(a, slot) ==
    IF slot[1] = 0 THEN a.chapters[slot[2]] ELSE a.parts[slot[1]].chapters[slot[2]]

\* the elements of a finite set of integers in increasing order
RECURSIVE Ascending(_)
Ascending(S) ==
    IF S = {} THEN <<>>
    ELSE LET m == CHOOSE x \in S : \A y \in S : x <= y
         IN  <<m>> \o Ascending(S \ {m})

\* line j is a Part or Chapter marker of the strict pass
StrictUpperMarker(j) == part_pattern(text_lines[j]) \/ chapter_pattern(text_lines[j])
StrictMarker(j) == StrictUpperMarker(j) \/ section_pattern(text_lines[j])

\* the Section markers that follow line c before the next Part or Chapter marker
SectionLinesUnder(c) ==
    {j \in (c + 1)..Len(text_lines) :
        /\ section_pattern(text_lines[j])
        /\ \A m \in (c + 1)..j : ~StrictUpperMarker(m)}

\* the lines that follow line j before the next marker of the strict pass
LinesAfter(j) ==
    LET stop == CHOOSE k \in (j + 1)..(Len(text_lines) + 1) :
                    /\ (k = Len(text_lines) + 1 \/ StrictMarker(k))
                    /\ \A m \in (j + 1)..(k - 1) : ~StrictMarker(m)
    IN  SubSeq(text_lines, j + 1, stop - 1)

Returned == pc = "done"
ReturnedStrict == pc = "done" /\ fallback_runs = 0
ReturnedFallback == pc = "done" /\ fallback_runs = 1

\* how far parse has got: the passes in order, and within a loop the line index
Progress(p, k) ==
    k + (Len(text_lines) + 2) *
        (CASE p = "start" -> 0 [] p = "strict" -> 1 [] p = "guard" -> 2
           [] p = "fallback" -> 3 [] OTHER -> 4)

\* C1: parse never raises; every step takes it further through the two loops
\* over the finite line sequence (so it cannot run forever); and what it returns
\* is an Act: a title, an optional year, a list of Parts and a list of Chapters,
\* each well-formed down to its Clauses.
C1_ParseReturnsAct ==
    /\ [](pc # "raised" /\ exc = "none")
    /\ [](i \in 1..(Len(text_lines) + 1))
    /\ [](pc = "done" => WellFormedAct(act))
    /\ [][Progress(pc', i') > Progress(pc, i)]_vars

\* parse returned a non-empty tree from the fallback pass
C1_Witness ==
    /\ ReturnedFallback
    /\ Len(text_lines) > 0
    /\ Len(act.parts) + Len(act.chapters) > 0

\* C2: for every Chapter marker at line c of the strict pass, the returned tree
\* holds exactly one Chapter made at c, and its Sections are the Sections made
\* at the Section markers that follow c before the next Part or Chapter marker,
\* in the order of those lines.
C2_SectionsInOrder ==
    Returned =>
        \A c \in 1..Len(text_lines) :
            (chapter_pattern(text_lines[c]) /\ ~part_pattern(text_lines[c])) =>
                LET slots == {sl \in ChapterSlots(act) : ChapterAt(act, sl).src = c}
                    want == Ascending(SectionLinesUnder(c))
                IN  /\ Cardinality(slots) = 1
                    /\ \A sl \in slots :
                        LET ch == ChapterAt(act, sl)
                        IN  /\ Len(ch.sections) = Len(want)
                            /\ \A k \in 1..Len(want) :
                                /\ ch.sections[k].src = want[k]
                                /\ ch.sections[k].section_number
                                       = extract_number(text_lines[want[k]])

\* a returned Chapter that holds two Sections or more
C2_Witness ==
    /\ Returned
    /\ \E sl \in ChapterSlots(act) :
        /\ Len(ChapterAt(act, sl).sections) >= 2
        /\ ChapterAt(act, sl).src > 0
        /\ Cardinality(SectionLinesUnder(ChapterAt(act, sl).src)) >= 2

\* the indices of the lines of buf that match the clause pattern
ClauseLines(buf) == {k \in 1..Len(buf) : clause_pattern(buf[k]).matched}

\* C3: a Section kept by the strict pass has one Clause per buffered line that
\* matches the clause pattern, in line order (the k-th Clause has the normalized
\* label of the k-th matching line); with no matching line it has no Clause and
\* its content is the buffered lines, joined by newlines.
C3_ClausePerMatchingLine ==
    ReturnedStrict =>
        \A sl \in ChapterSlots(act) :
            \A n \in 1..Len(ChapterAt(act, sl).sections) :
                LET sec == ChapterAt(act, sl).sections[n]
                    buf == LinesAfter(sec.src)
                    hits == Ascending(ClauseLines(buf))
                IN  /\ Len(sec.clauses) = Len(hits)
                    /\ \A k \in 1..Len(hits) :
                          sec.clauses[k].clause_id
                              = nepali_to_english_num(clause_pattern(buf[hits[k]]).group)
                    /\ Len(hits) = 0 =>
                          /\ sec.clauses = <<>>
                          /\ sec.content = Join(NewLine, buf)
                          /\ (Len(buf) > 0 => SplitLines(sec.content) = buf)

\* the strict pass kept a Section with two matching lines or more, and one with
\* none
C3_Witness ==
    /\ ReturnedStrict
    /\ \E sl \in ChapterSlots(act) :
        \E n \in 1..Len(ChapterAt(act, sl).sections) :
            /\ Len(ChapterAt(act, sl).sections[n].clauses) >= 2
            /\ Cardinality(ClauseLines(LinesAfter(ChapterAt(act, sl).sections[n].src))) >= 2
    /\ \E sl \in ChapterSlots(act) :
        \E n \in 1..Len(ChapterAt(act, sl).sections) :
            /\ Len(ChapterAt(act, sl).sections[n].clauses) = 0
            /\ Len(ChapterAt(act, sl).sections[n].content) > 0

EmptyTree(a) == Len(a.parts) = 0 /\ Len(a.chapters) = 0

\* C4: the fallback pass is entered exactly when the strict pass ended with no
\* Part and no direct Chapter, and at most once; otherwise the returned Act is
\* the Act the strict pass left; after the return nothing runs again.
C4_FallbackIffStrictEmpty ==
    /\ fallback_runs <= 1
    /\ pc \in {"start", "strict", "guard"} => fallback_runs = 0
    /\ pc \in {"fallback", "done"} => (fallback_runs = 1 <=> EmptyTree(strict_result))
    /\ ReturnedStrict => act = strict_result
    /\ pc = "done" => ~ENABLED Next

\* the fallback pass ran over a non-empty input and its empty result was returned
C4_Witness ==
    /\ ReturnedFallback
    /\ Len(text_lines) > 0
    /\ EmptyTree(act)

\* no line is a marker of the strict pass
NoAnchoredMarker == \A j \in 1..Len(text_lines) : ~StrictMarker(j)

\* what the fallback pass reads line j as: its tests are tried in this order
FbKind(j) ==
    IF LoosePart(text_lines[j]) THEN "Part"
    ELSE IF LooseChapter(text_lines[j]) THEN "Chapter"
    ELSE IF LooseSection(text_lines[j]) THEN "Section"
    ELSE "None"

SomeLooseMarker == \E j \in 1..Len(text_lines) : FbKind(j) # "None"
SomeLoosePartOrChapter == \E j \in 1..Len(text_lines) : FbKind(j) \in {"Part", "Chapter"}
\* a line read as a Section marker, directly followed by a line read as content
LooseSectionWithContent ==
    \E j \in 1..(Len(text_lines) - 1) : FbKind(j) = "Section" /\ FbKind(j + 1) = "None"

C6_ScenarioAStructure ==
    (Returned /\ text_lines = ScenarioA) =>
        /\ Len(act.parts) = 1
        /\ act.parts[1].part_number = <<49>>
        /\ Len(act.parts[1].chapters) = 1
        /\ act.parts[1].chapters[1].chapter_number = <<49>>
        /\ Len(act.parts[1].chapters[1].sections) = 2
        /\ act.parts[1].chapters[1].sections[1].section_number = <<49>>
        /\ act.parts[1].chapters[1].sections[2].section_number = <<50>>
        /\ Len(act.chapters) = 0

\* parse returned for Scenario A
C6_Witness == Returned /\ text_lines = ScenarioA /\ fallback_runs = 0

\* C7 as stated: in Scenario A, Section 1 has exactly two Clauses, "1" with
\* "पहिलो पाठ" and "2" with "दोस्रो पाठ", and Section 2 has no Clause and the
\* content "दोस्रो दफा content".
C7_AsStated ==
    (Returned /\ text_lines = ScenarioA) =>
        /\ Len(act.parts) = 1
        /\ Len(act.parts[1].chapters) = 1
        /\ Len(act.parts[1].chapters[1].sections) = 2
        /\ LET s1 == act.parts[1].chapters[1].sections[1]
               s2 == act.parts[1].chapters[1].sections[2]
           IN  /\ Len(s1.clauses) = 2
               /\ s1.clauses[1].clause_id = <<49>>
               /\ s1.clauses[1].content = <<2346, 2361, 2367, 2354, 2379, 32, 2346, 2366, 2336>>
               /\ s1.clauses[2].clause_id = <<50>>
               /\ s1.clauses[2].content
                      = <<2342, 2379, 2360, 2381, 2352, 2379, 32, 2346, 2366, 2336>>
               /\ Len(s2.clauses) = 0
               /\ s2.content = ScenarioA[10]

\* C8: the empty line sequence yields the title "Unknown Act", no year, no Part
\* and no Chapter; the strict pass leaves nothing and the fallback pass runs and
\* leaves nothing either.
C8_EmptyInput ==
    (Returned /\ text_lines = <<>>) =>
        /\ act.title = <<85, 110, 107, 110, 111, 119, 110, 32, 65, 99, 116>>
        /\ act.act_year = <<>>
        /\ Len(act.parts) = 0
        /\ Len(act.chapters) = 0
        /\ EmptyTree(strict_result)
        /\ fallback_runs = 1

\* parse returned for the empty line sequence
C8_Witness == Returned /\ text_lines = <<>> /\ i = 1

\* line begins with kw, then any number of whitespace characters or hyphens,
\* then a digit of either script
BeginsWithMarker(kw, line) ==
    \E n \in 0..Len(line) :
        /\ Len(line) >= Len(kw) + n + 1
        /\ \A j \in 1..Len(kw) : line[j] = kw[j]
        /\ \A m \in 1..n : line[Len(kw) + m] \in Space \cup {45}
        /\ line[Len(kw) + n + 1] \in (48..57) \cup (2406..2415)

\* the object x was created at line j
MadeAt(x, kind, j) == x.kind = kind /\ x.src = j

\* C9: when the strict pass has read line j, a new Part (Chapter, Section) is
\* open that was made at j exactly when the line begins with the keyword of the
\* Part (Chapter, Section) followed by optional whitespace or hyphens and a
\* digit; at most one kind is opened by a line; "दफा ५ मातहत" opens Section "5".
C9_StrictClassification ==
    (pc = "strict" /\ i > 1) =>
        LET j == i - 1
            line == text_lines[j]
            newPart == MadeAt(current_part, "Part", j)
            newChapter == MadeAt(current_chapter, "Chapter", j)
            newSection == MadeAt(current_section, "Section", j)
        IN  /\ newPart <=> BeginsWithMarker(KW_PART, line)
            /\ newChapter <=> BeginsWithMarker(KW_CHAPTER, line)
            /\ newSection <=> BeginsWithMarker(KW_SECTION, line)
            /\ ~(newPart /\ newChapter) /\ ~(newPart /\ newSection)
            /\ ~(newChapter /\ newSection)
            /\ line = LSection => (newSection /\ current_section.section_number = <<53>>)

\* the strict pass has just read "दफा ५ मातहत" and opened Section "5"
C9_Witness ==
    /\ pc = "strict"
    /\ i > 1
    /\ text_lines[i - 1] = LSection
    /\ MadeAt(current_section, "Section", i - 1)
    /\ current_section.section_number = <<53>>

\* the letters among the characters of the lines: Devanagari letters, A-Z, a-z
\* (U+094D, the virama, is a combining sign and not a letter)
Letters == (2308..2361) \cup (2392..2401) \cup (65..90) \cup (97..122)

AsciiDigitStr(x) == \A k \in 1..Len(x) : x[k] \in 48..57
ClauseIdOK(x) == AsciiDigitStr(x) \/ (Len(x) = 1 /\ x[1] \in Letters)
NumbersOK(ch) ==
    /\ AsciiDigitStr(ch.chapter_number)
    /\ \A n \in 1..Len(ch.sections) :
        /\ AsciiDigitStr(ch.sections[n].section_number)
        /\ \A k \in 1..Len(ch.sections[n].clauses) :
              ClauseIdOK(ch.sections[n].clauses[k].clause_id)

\* C10 as stated: in a returned tree every part_number, chapter_number and
\* section_number is made of ASCII digits only, and every clause_id is a string
\* of ASCII digits or a single letter.
C10_AsStated ==
    Returned =>
        /\ \A q \in 1..Len(act.parts) : AsciiDigitStr(act.parts[q].part_number)
        /\ \A sl \in ChapterSlots(act) : NumbersOK(ChapterAt(act, sl))

\* the ASCII digit of a Devanagari digit, and any other character itself
AsciiOf(c) == IF c \in 2406..2415 THEN c - 2358 ELSE c
IsDigitChar(c) == c \in (48..57) \cup (2406..2415)

\* C11: nepali_to_english_num returns a string of the length of its argument
\* whose k-th character is the ASCII digit of the k-th character of the
\* argument if that is a Devanagari digit, and that character itself if not;
\* an argument without Devanagari digits is returned as it is; and the function
\* applied to its own result returns that result.
C11_NormalizePerCharacter ==
    (fn = "nepali_to_english_num" /\ Len(ret) >= 1) =>
        /\ Len(ret[1]) = Len(arg)
        /\ \A k \in 1..Len(arg) : ret[1][k] = AsciiOf(arg[k])
        /\ (\A k \in 1..Len(arg) : arg[k] \notin 2406..2415) => ret[1] = arg
        /\ Len(ret) = 2 => ret[2] = ret[1]

\* the function was applied twice to a string that has the same Devanagari
\* digit twice and another character
C11_Witness ==
    /\ fn = "nepali_to_english_num"
    /\ Len(ret) = 2
    /\ Len(arg) = 3
    /\ \E j, k \in 1..3 : j # k /\ arg[j] = arg[k] /\ arg[j] \in 2406..2415
    /\ \E k \in 1..3 : ~IsDigitChar(arg[k])
    /\ ret[1] # arg

\* C12: extract_number returns the empty string if its argument has no digit of
\* either script, and otherwise the ASCII form of the run arg[a..b], where a is
\* the first digit of arg and b the last index before the first non-digit after
\* a (or the end of arg).
C12_ExtractNumberLeftmostRun ==
    (fn = "extract_number" /\ Len(ret) = 1) =>
        IF \A k \in 1..Len(arg) : ~IsDigitChar(arg[k])
        THEN ret[1] = <<>>
        ELSE \E a \in 1..Len(arg) : \E b \in a..Len(arg) :
                /\ \A k \in 1..(a - 1) : ~IsDigitChar(arg[k])
                /\ \A k \in a..b : IsDigitChar(arg[k])
                /\ b = Len(arg) \/ ~IsDigitChar(arg[b + 1])
                /\ ret[1] = [k \in 1..(b - a + 1) |-> AsciiOf(arg[a + k - 1])]

\* extract_number returned a run of two digits of different scripts that does
\* not start the argument
C12_Witness ==
    /\ fn = "extract_number"
    /\ Len(ret) = 1
    /\ arg = <<2325, 2411, 55>>
    /\ ret[1] = <<53, 55>>

SectionsOf(ch) == {ch.sections[n] : n \in 1..Len(ch.sections)}
\* the Sections of a tree
TreeSections(a) == UNION {SectionsOf(ChapterAt(a, sl)) : sl \in ChapterSlots(a)}
\* the Sections already appended to the Chapter or the Part that is still open
OpenSections ==
    (IF current_chapter.kind = "Chapter" THEN SectionsOf(current_chapter) ELSE {})
        \cup (IF current_part.kind = "Part"
              THEN UNION {SectionsOf(current_part.chapters[k])
                              : k \in 1..Len(current_part.chapters)}
              ELSE {})
\* line j is not a marker and the last marker before it, if any, is not a
\* Section marker: no Section is open when the strict pass reads it
ReadOutsideSection(j) ==
    /\ ~StrictMarker(j)
    /\ \A m \in 1..(j - 1) :
          section_pattern(text_lines[m]) => \E u \in (m + 1)..(j - 1) : StrictMarker(u)

\* C13: throughout the strict pass, the buffer holds exactly the lines read
\* since the open Section's marker (none of them a marker), and is empty while no
\* Section is open; every Section that has been appended to a Chapter, from the
\* moment it is appended, has as content the newline-joined lines between its
\* marker and the next marker or the end; two appended Sections never come
\* from the same marker, so no line is in two contents.
C13_StrictContent ==
    /\ pc = "strict" =>
          /\ IsNone(current_section) => content_buffer = <<>>
          /\ ~IsNone(current_section) =>
                /\ content_buffer = SubSeq(text_lines, current_section.src + 1, i - 1)
                /\ \A j \in (current_section.src + 1)..(i - 1) : ~StrictMarker(j)
          /\ \A s \in TreeSections(act) \cup OpenSections :
                s.content = Join(NewLine, LinesAfter(s.src))
    /\ pc \in {"guard", "fallback", "done"} =>
          /\ \A s \in TreeSections(strict_result) :
                /\ s.content = Join(NewLine, LinesAfter(s.src))
                /\ section_pattern(text_lines[s.src])
          /\ \A s, t \in TreeSections(strict_result) : s.src = t.src => s = t

\* the strict pass returned a Section with two content lines or more, and read
\* a line while no Section was open
C13_Witness ==
    /\ ReturnedStrict
    /\ \E s \in TreeSections(act) :
          /\ Len(LinesAfter(s.src)) >= 2
          /\ s.content = Join(NewLine, LinesAfter(s.src))
    /\ \E j \in 1..Len(text_lines) : ReadOutsideSection(j)

\* line j is a Section marker and no Chapter is open when the strict pass reads
\* it: every Chapter marker before it is followed by a Part marker before j
OpenedWithoutChapter(j) ==
    /\ section_pattern(text_lines[j])
    /\ \A m \in 1..(j - 1) :
          chapter_pattern(text_lines[m]) =>
              \E u \in (m + 1)..(j - 1) : part_pattern(text_lines[u])

\* C14: once the strict pass is over, no Section of its result comes from a
\* Section marker read while no Chapter was open; the Sections of the result
\* are exactly those of the other Section markers, so the lines buffered for
\* the discarded ones are in no content; and no exception was raised.
C14_StrictDropsOrphanSection ==
    pc \in {"guard", "fallback", "done"} =>
        /\ \A j \in 1..Len(text_lines) :
              OpenedWithoutChapter(j) => \A s \in TreeSections(strict_result) : s.src # j
        /\ {s.src : s \in TreeSections(strict_result)}
              = {j \in 1..Len(text_lines) :
                    section_pattern(text_lines[j]) /\ ~OpenedWithoutChapter(j)}
        /\ exc = "none"

\* the strict pass returned a tree with a Section in it, after it discarded a
\* Section with buffered content
C14_Witness ==
    /\ ReturnedStrict
    /\ exc = "none"
    /\ TreeSections(act) # {}
    /\ \E j \in 1..Len(text_lines) :
          /\ OpenedWithoutChapter(j)
          /\ Len(LinesAfter(j)) >= 1
          /\ \A s \in TreeSections(act) : s.src # j

\* the fallback pass reads line j as a Section marker while no Chapter is open:
\* since the last line read as a Part marker (or the start) there is no line
\* read as a Chapter marker, and no line read as a Section marker with a
\* content line after it (whose flush would have made the default Chapter)
FbOpenedWithoutChapter(j) ==
    /\ FbKind(j) = "Section"
    /\ \A m \in 1..(j - 1) :
          (\/ FbKind(m) = "Chapter"
           \/ (FbKind(m) = "Section" /\ FbKind(m + 1) = "None"))
              => \E u \in (m + 1)..(j - 1) : FbKind(u) = "Part"

IsDefaultChapter(c) ==
    /\ c.chapter_number = <<49>>
    /\ c.title = <<2360, 2366, 2350, 2366, 2344, 2381, 2351, 32, 40, 71, 101, 110, 101, 114,
                   97, 108, 41>>

\* C15 as stated: every Section that the fallback pass opens while no Chapter
\* is open is, in the returned tree, inside a default Chapter with number "1"
\* and title "सामान्य (General)", whatever follows it.
C15_AsStated ==
    ReturnedFallback =>
        \A j \in 1..Len(text_lines) :
            FbOpenedWithoutChapter(j) =>
                \E sl \in ChapterSlots(act) :
                    /\ IsDefaultChapter(ChapterAt(act, sl))
                    /\ \E s \in SectionsOf(ChapterAt(act, sl)) : s.src = j

\* the lines the fallback pass reads as Chapter markers
FbChapterLines == {j \in 1..Len(text_lines) : FbKind(j) = "Chapter"}
\* the direct Chapters of a that were made from a line (not synthesized)
DirectChaptersFromLines(a) == SelectSeq(a.chapters, LAMBDA c : c.src # 0)

\* C16 as stated: when the fallback pass handles an input with n lines read as
\* Chapter markers and none read as a Part marker, the returned Act has exactly
\* n direct Chapters made from those lines, in source order.
C16_AsStated ==
    (ReturnedFallback /\ \A j \in 1..Len(text_lines) : FbKind(j) # "Part") =>
        [k \in 1..Len(DirectChaptersFromLines(act)) |-> DirectChaptersFromLines(act)[k].src]
            = Ascending(FbChapterLines)

\* the last line before j that the fallback pass reads as one of kinds, 0 if none
LastOfKind(kinds, j) ==
    LET before == {m \in 1..(j - 1) : FbKind(m) \in kinds}
    IN  IF before = {} THEN 0 ELSE CHOOSE m \in before : \A u \in before : u <= m
\* how many lines between a and j the fallback pass reads as kind
CountOfKind(kind, a, j) == Cardinality({m \in (a + 1)..(j - 1) : FbKind(m) = kind})
Unnumbered(j) == \A k \in 1..Len(text_lines[j]) : ~IsDigitChar(text_lines[j][k])

\* C17 as stated: in the tree the fallback pass returns, a Part, Chapter or
\* Section made from a line without a digit of either script has as number
\* the decimal string of one plus the count of the entities of its kind opened
\* before it under the same parent (for a Part: since the start; for a Chapter:
\* since the line that opened its Part, or the start; for a Section: since the
\* line that opened its Chapter), and no number is empty.
C17_AsStated ==
    ReturnedFallback =>
        /\ \A q \in 1..Len(act.parts) :
              /\ act.parts[q].part_number # <<>>
              /\ Unnumbered(act.parts[q].src) =>
                    act.parts[q].part_number
                        = Str(1 + CountOfKind("Part", 0, act.parts[q].src))
        /\ \A sl \in ChapterSlots(act) :
              LET c == ChapterAt(act, sl)
              IN  /\ c.chapter_number # <<>>
                  /\ (c.src > 0 /\ Unnumbered(c.src)) =>
                        c.chapter_number
                            = Str(1 + CountOfKind("Chapter", LastOfKind({"Part"}, c.src), c.src))
        /\ \A s \in TreeSections(act) :
              /\ s.section_number # <<>>
              /\ Unnumbered(s.src) =>
                    s.section_number
                        = Str(1 + CountOfKind("Section",
                                              LastOfKind({"Part", "Chapter"}, s.src), s.src))

\* the lines that follow line j before the next line the fallback pass reads as
\* a marker: what it buffers for a Section opened at j
FbLinesAfter(j) ==
    LET stop == CHOOSE k \in (j + 1)..(Len(text_lines) + 1) :
                    /\ (k = Len(text_lines) + 1 \/ FbKind(k) # "None")
                    /\ \A m \in (j + 1)..(k - 1) : FbKind(m) = "None"
    IN  SubSeq(text_lines, j + 1, stop - 1)

\* C18 as stated: a Section in the tree the fallback pass returns has the
\* Clauses that the strict pass gives a Section with the same buffered lines
\* (same count, ids and contents), one Clause per buffered line that matches
\* the clause pattern.
C18_AsStated ==
    ReturnedFallback =>
        \A s \in TreeSections(act) :
            /\ s.clauses = Finalized(s, NewLine, FbLinesAfter(s.src)).clauses
            /\ Len(s.clauses) = Cardinality(ClauseLines(FbLinesAfter(s.src)))

\* x without the whitespace at its two ends
Trimmed(x) ==
    LET inner == {k \in 1..Len(x) : x[k] \notin Space}
    IN  IF inner = {} THEN <<>>
        ELSE SubSeq(x, CHOOSE a \in inner : \A b \in inner : a <= b,
                       CHOOSE a \in inner : \A b \in inner : b <= a)
\* x without a leading character of S, if it has one
DropOne(x, S) == IF Len(x) > 0 /\ x[1] \in S THEN SubSeq(x, 2, Len(x)) ELSE x

\* where the label of a line starts: after the leading whitespace and one
\* opening bracket, if any
LabelStart(line) ==
    LET lead == CHOOSE p \in 0..Len(line) :
                    /\ \A k \in 1..p : line[k] \in Space
                    /\ p = Len(line) \/ line[p + 1] \notin Space
    IN  IF lead < Len(line) /\ line[lead + 1] \in {40, 65288} THEN lead + 2 ELSE lead + 1
\* where it ends: a run of digits as far as it goes, or a single label character
LabelEnd(line) ==
    LET a == LabelStart(line)
    IN  IF IsDigitChar(line[a])
        THEN CHOOSE b \in a..Len(line) :
                /\ \A k \in a..b : IsDigitChar(line[k])
                /\ b = Len(line) \/ ~IsDigitChar(line[b + 1])
        ELSE a
OpensClause(line) ==
    /\ LabelStart(line) <= Len(line)
    /\ IsDigitChar(line[LabelStart(line)]) \/ line[LabelStart(line)] \in ClauseLabel
LabelOf(line) == SubSeq(line, LabelStart(line), LabelEnd(line))
\* the line after its label, one closing bracket, whitespace, one separator and
\* whitespace again, and without trailing whitespace
AfterLabel(line) ==
    Trimmed(DropOne(Trimmed(DropOne(SubSeq(line, LabelEnd(line) + 1, Len(line)),
                                    {41, 65289})),
                    {58, 2404, 46}))

\* the lines a+1..b-1, each without its surrounding whitespace and each after
\* one blank
RECURSIVE Continuation(_, _, _)
Continuation(lines, a, b) ==
    IF a + 1 >= b THEN <<>>
    ELSE <<32>> \o Trimmed(lines[a + 1]) \o Continuation(lines, a + 1, b)

\* detect_clauses returned, for each clause-opening line of its argument in
\* order, one Clause: its id the label of the line in ASCII digits, its content
\* the rest of the line followed by the lines up to the next opening line (or
\* the end), each after one blank
ClausesAsSegmented ==
    LET lines == SplitLines(arg)
        hits == Ascending({k \in 1..Len(lines) : OpensClause(lines[k])})
    IN  /\ Len(ret[1]) = Len(hits)
        /\ \A n \in 1..Len(hits) :
              /\ ret[1][n].clause_id
                    = [k \in 1..Len(LabelOf(lines[hits[n]])) |->
                          AsciiOf(LabelOf(lines[hits[n]])[k])]
              /\ ret[1][n].content
                    = AfterLabel(lines[hits[n]])
                        \o Continuation(lines, hits[n],
                                        IF n < Len(hits) THEN hits[n + 1] ELSE Len(lines) + 1)

\* C19 as stated: detect_clauses gives one Clause per clause-opening line, in
\* line order, the one still open at the end included; its clause_id is the
\* normalized label, a run of digits or a single letter, without brackets or
\* separator, and its content is the rest of the opening line followed by
\* every line up to the next opening line, each after a single space.
C19_AsStated ==
    (fn = "detect_clauses" /\ Len(ret) = 1) =>
        /\ ClausesAsSegmented
        /\ \A n \in 1..Len(ret[1]) : ClauseIdOK(ret[1][n].clause_id)

\* token occurs somewhere in line
Holds(line, token) ==
    \E k \in 0..(Len(line) - Len(token)) : \A j \in 1..Len(token) : line[k + j] = token[j]
\* "www." or "http" occurs in line
HasUrlToken(line) == Holds(line, <<119, 119, 119, 46>>) \/ Holds(line, <<104, 116, 116, 112>>)
\* the lines among the first 50 of arg that contain "ऐन"
ActLines == {k \in 1..Len(arg) : k <= 50 /\ Holds(arg[k], <<2320, 2344>>)}
FirstActLine == CHOOSE h \in ActLines : \A g \in ActLines : h <= g
\* xs joined by single blanks
RECURSIVE Spaced(_)
Spaced(xs) ==
    IF Len(xs) = 0 THEN <<>>
    ELSE IF Len(xs) = 1 THEN xs[1]
    ELSE xs[1] \o <<32>> \o Spaced(Tail(xs))
TitleCase == fn = "_find_title" /\ Len(ret) = 1 /\ ActLines # {}

\* the title built around the first Act line when a neighbour is left out
\* exactly if it is shorter than minPrev (the predecessor) or minNext (the
\* successor), holds a URL token, or is a marker line of one of prevMarkers
\* (the predecessor) or nextMarkers (the successor)
TitleBuilt(minPrev, minNext, prevMarkers, nextMarkers) ==
    LET h == FirstActLine
        before == IF /\ h > 1
                     /\ ~HasUrlToken(arg[h - 1])
                     /\ Len(arg[h - 1]) >= minPrev
                     /\ \A kw \in prevMarkers : ~BeginsWithMarker(kw, arg[h - 1])
                  THEN <<arg[h - 1]>> ELSE <<>>
        after == IF /\ h < Len(arg)
                    /\ ~HasUrlToken(arg[h + 1])
                    /\ Len(arg[h + 1]) >= minNext
                    /\ \A kw \in nextMarkers : ~BeginsWithMarker(kw, arg[h + 1])
                 THEN <<arg[h + 1]>> ELSE <<>>
    IN  Spaced(before \o <<arg[h]>> \o after)

AllDigits(line) == \A k \in 1..Len(line) : IsDigitChar(line[k])
TitleFallbackLines ==
    {k \in 1..Len(arg) : /\ k <= 20
                         /\ ~HasUrlToken(arg[k])
                         /\ Len(arg[k]) >= 5
                         /\ ~AllDigits(arg[k])}
NoActCase == fn = "_find_title" /\ Len(ret) = 1 /\ ActLines = {}

\* C21: with no Act line among the first 50 lines, the title is the first of
\* the first 20 lines that holds no URL token, has at least 5 characters and
\* is not all digits; with no such line, or no line at all, it is
\* "Unknown Act".
C21_TitleFallback ==
    NoActCase =>
        IF TitleFallbackLines = {}
        THEN ret[1] = <<85, 110, 107, 110, 111, 119, 110, 32, 65, 99, 116>>
        ELSE \E k \in TitleFallbackLines :
                /\ \A m \in TitleFallbackLines : k <= m
                /\ ret[1] = arg[k]

\* a URL line and an all-digit line are passed over and the third line is the
\* title; or the only acceptable line is the 21st and the title is unknown
C21_Witness ==
    /\ NoActCase
    /\ \/ /\ Len(arg) = 3
          /\ HasUrlToken(arg[1]) /\ AllDigits(arg[2]) /\ Len(arg[2]) >= 5
          /\ ret[1] = arg[3]
       \/ /\ Len(arg) = 21
          /\ TitleFallbackLines = {}
          /\ Len(arg[21]) >= 5 /\ ~HasUrlToken(arg[21]) /\ ~AllDigits(arg[21])
          /\ ret[1] = <<85, 110, 107, 110, 111, 119, 110, 32, 65, 99, 116>>

\* four Devanagari digits, or four ASCII digits of which the first two are
\* "19" or "20", start at index k of line
YearStartsAt(line, k) ==
    /\ k + 3 <= Len(line)
    /\ \/ \A j \in 0..3 : line[k + j] \in 2406..2415
       \/ /\ \A j \in 0..3 : line[k + j] \in 48..57
          /\ <<line[k], line[k + 1]>> \in {<<49, 57>>, <<50, 48>>}
YearLines == {n \in 1..Len(arg) : n <= 5 /\ \E k \in 1..Len(arg[n]) : YearStartsAt(arg[n], k)}
\* the four characters of the leftmost such match of line, in ASCII digits
YearOf(line) ==
    LET k == CHOOSE a \in 1..Len(line) :
                 YearStartsAt(line, a) /\ \A b \in 1..(a - 1) : ~YearStartsAt(line, b)
    IN  [j \in 1..4 |-> AsciiOf(line[k + j - 1])]
YearCase == fn = "_extract_year" /\ Len(ret) = 1

\* C22 as stated: the year is the first match, in the first 5 lines, of four
\* Devanagari digits or of four ASCII digits beginning with "19" or "20",
\* in ASCII digits; with no such match the year is absent.  So a returned year
\* is four ASCII digits.
C22_AsStated ==
    YearCase =>
        /\ IF YearLines = {} THEN ret[1] = <<>>
           ELSE \E n \in YearLines : /\ \A m \in YearLines : n <= m
                                     /\ ret[1] = <<YearOf(arg[n])>>
        /\ ret[1] # <<>> => Len(ret[1][1]) = 4 /\ \A j \in 1..4 : ret[1][1][j] \in 48..57

\* line holds a digit of one of the two scripts
HasScriptDigit(line) == \E k \in 1..Len(line) : IsDigitChar(line[k])
\* what a line opens in the fallback pass according to the keyword it holds,
\* the kinds tried in the order Part, Chapter, Section
LooseKind(line) ==
    IF ~HasScriptDigit(line) THEN "None"
    ELSE IF Holds(line, KW_PART) THEN "Part"
    ELSE IF Holds(line, KW_CHAPTER) THEN "Chapter"
    ELSE IF Holds(line, KW_SECTION) \/ Holds(line, KW_DHARA) THEN "Section"
    ELSE "None"

\* C23 as stated: in the fallback pass a line opens a Part, Chapter or Section
\* exactly when it holds the keyword of that kind and a digit of either
\* script; and the input made of the line "Notes about दफा numbering
\* conventions" alone gives no Part and no Chapter in either pass.
C23_AsStated ==
    /\ (pc = "fallback" /\ i > 1) =>
          /\ LooseKind(text_lines[i - 1]) = "Part" <=> MadeAt(current_part, "Part", i - 1)
          /\ LooseKind(text_lines[i - 1]) = "Chapter" <=>
                 MadeAt(current_chapter, "Chapter", i - 1)
          /\ LooseKind(text_lines[i - 1]) = "Section" <=>
                 MadeAt(current_section, "Section", i - 1)
    /\ (Returned /\ text_lines = <<LNotes>>) =>
          /\ fallback_runs = 1
          /\ EmptyTree(strict_result) /\ EmptyTree(act)

\* both invocations are alive, and the one that executes has returned
ReturnedAmongTwo == Len(suspended) = 1 /\ Len(ret) = 2 /\ pc = "done"

\* C24: of two parse invocations on different line sequences, interleaved at
\* any loop step, each returns the Act it returned when it ran with no other
\* invocation alive, and a step of one leaves the frame of the other as it
\* was.
C24_InvocationsIndependent ==
    /\ ReturnedAmongTwo => \A d \in 1..2 : text_lines = arg[d] => act = ret[d]
    /\ Len(suspended) = 1 =>
          /\ suspended[1].text_lines \in {arg[1], arg[2]}
          /\ suspended[1].text_lines # text_lines
          /\ suspended[1].pc = "done" /\ Len(ret) = 2 =>
                \A d \in 1..2 : suspended[1].text_lines = arg[d] => suspended[1].act = ret[d]

\* the first invocation returns after the second has stepped in between its
\* Section line and the content line that follows it
C24_Witness ==
    /\ ReturnedAmongTwo
    /\ text_lines = <<LSection, LText>>
    /\ suspended[1].text_lines = <<LChapter, LSection, LClause>>
    /\ suspended[1].pc = "strict" /\ suspended[1].i = 3
    /\ Len(act.chapters) = 1

\* the lines the strict pass reads as Part markers and as Chapter markers
StrictPartLines == {j \in 1..Len(text_lines) : part_pattern(text_lines[j])}
StrictChapterLines ==
    {j \in 1..Len(text_lines) : chapter_pattern(text_lines[j]) /\ ~part_pattern(text_lines[j])}
\* the Chapter markers read while the Part of line p is open (p = 0: while no
\* Part is open)
ChapterLinesOf(p) ==
    {c \in StrictChapterLines :
        /\ c > p
        /\ \A q \in StrictPartLines : q <= p \/ q > c
        /\ p = 0 \/ p \in StrictPartLines}
\* the lines at which the elements of a list were made
SrcOf(xs) == [k \in 1..Len(xs) |-> xs[k].src]
StrictOver == pc \in {"guard", "fallback", "done"}

\* C25: when the strict pass is over, the Parts of its result are those made at
\* the Part markers, one each, in line order; the Chapters of a Part are those
\* made at the Chapter markers read while that Part was open, and the direct
\* Chapters of the Act those made at the Chapter markers read before any Part
\* marker, one each, in line order.
C25_StrictPartsAndChapters ==
    StrictOver =>
        /\ SrcOf(strict_result.parts) = Ascending(StrictPartLines)
        /\ SrcOf(strict_result.chapters) = Ascending(ChapterLinesOf(0))
        /\ \A k \in 1..Len(strict_result.parts) :
              /\ strict_result.parts[k].kind = "Part"
              /\ SrcOf(strict_result.parts[k].chapters)
                     = Ascending(ChapterLinesOf(strict_result.parts[k].src))
              /\ \A n \in 1..Len(strict_result.parts[k].chapters) :
                     strict_result.parts[k].chapters[n].kind = "Chapter"
        /\ \A n \in 1..Len(strict_result.chapters) : strict_result.chapters[n].kind = "Chapter"

\* the strict pass is over with a direct Chapter and with a Part that holds a
\* Chapter and was still open at the end of the lines
C25_Witness ==
    /\ StrictOver
    /\ Len(strict_result.chapters) >= 1
    /\ Len(strict_result.parts) >= 1
    /\ Len(strict_result.parts[Len(strict_result.parts)].chapters) >= 1
    /\ strict_result.parts[Len(strict_result.parts)].chapters[1].src = Len(text_lines)

\* x and y are the same object with the same number and title
SameHead(x, y) ==
    /\ x.kind = y.kind
    /\ x.kind # "None" => x.src = y.src /\ x.title = y.title
    /\ x.kind = "Part" => x.part_number = y.part_number
    /\ x.kind = "Chapter" => x.chapter_number = y.chapter_number
\* ys is xs, or xs with the object made at line j appended
SameOrWith(xs, ys, j) ==
    \/ ys = xs
    \/ Len(ys) = Len(xs) + 1 /\ SubSeq(ys, 1, Len(xs)) = xs /\ ys[Len(ys)].src = j
\* the strict pass processes line i in this step
StrictStep == pc = "strict" /\ i <= Len(text_lines) /\ i' = i + 1

\* C26: in the strict pass a step on a Chapter marker leaves act.parts as it
\* was and the open Part open, with its number and title, its Chapters being
\* those it had and at most the Chapter that the step closed; a step on a
\* Section marker leaves the Act and the open Part as they were and the open
\* Chapter open, its Sections being those it had and at most the Section that
\* the step closed.
C26_MarkerStepFrame ==
    [][StrictStep =>
        /\ BeginsWithMarker(KW_CHAPTER, text_lines[i]) =>
              /\ act'.parts = act.parts
              /\ SameHead(current_part, current_part')
              /\ IF IsNone(current_part)
                 THEN IsNone(current_chapter) \/
                          SameOrWith(act.chapters, act'.chapters, current_chapter.src)
                 ELSE /\ act' = act
                      /\ IsNone(current_chapter) \/
                             SameOrWith(current_part.chapters, current_part'.chapters,
                                        current_chapter.src)
              /\ IsNone(current_chapter) =>
                     act' = act /\ current_part' = current_part
              /\ current_chapter'.src = i
        /\ BeginsWithMarker(KW_SECTION, text_lines[i]) =>
              /\ act' = act
              /\ current_part' = current_part
              /\ SameHead(current_chapter, current_chapter')
              /\ IsNone(current_chapter) \/ IsNone(current_section) =>
                     current_chapter' = current_chapter
              /\ ~IsNone(current_chapter) /\ ~IsNone(current_section) =>
                     SameOrWith(current_chapter.sections, current_chapter'.sections,
                                current_section.src)
              /\ current_section'.src = i
    ]_vars

\* the step on a Chapter marker has closed a Chapter into the open Part, which
\* is still open and not in act.parts; or the step on a Section marker has
\* closed a Section into the open Chapter, which is still open and in no list
C26_Witness ==
    /\ pc = "strict" /\ i > 1
    /\ \/ /\ BeginsWithMarker(KW_CHAPTER, text_lines[i - 1])
          /\ ~IsNone(current_part)
          /\ Len(current_part.chapters) = 1
          /\ Len(act.parts) = 0
       \/ /\ BeginsWithMarker(KW_SECTION, text_lines[i - 1])
          /\ ~IsNone(current_chapter)
          /\ Len(current_chapter.sections) = 1
          /\ Len(act.chapters) = 0 /\ Len(act.parts) = 0

\* the Section markers the strict pass reads while no Chapter is open
OrphanSectionLines == {j \in 1..Len(text_lines) : OpenedWithoutChapter(j)}
StrictFoundStructure ==
    StrictPartLines # {} \/ StrictChapterLines # {}

\* C27: when the input has a Part or Chapter marker of the strict pass, parse
\* returns the strict-pass tree without running the fallback pass; no Section
\* of the tree comes from a Section marker read while no Chapter was open, and
\* no Chapter of the tree is a synthesized one.
C27_OrphanSectionsStayLost ==
    (Returned /\ StrictFoundStructure) =>
        /\ fallback_runs = 0
        /\ act = strict_result
        /\ \A j \in OrphanSectionLines : \A s \in TreeSections(act) : s.src # j
        /\ \A sl \in ChapterSlots(act) :
              /\ ChapterAt(act, sl).src \in StrictChapterLines
              /\ ChapterAt(act, sl).title # GeneralTitle

\* parse returned a tree with a Chapter but without the two Sections opened
\* before the first Chapter and after the Part marker that follows it
C27_Witness ==
    /\ Returned
    /\ StrictFoundStructure
    /\ \E j \in OrphanSectionLines : \E c \in StrictChapterLines : j < c
    /\ \E j \in OrphanSectionLines : \E q \in StrictPartLines : q < j
    /\ TreeSections(act) = {}

\* line j is followed by no content line: it is the last line, or the next
\* line is a marker line of the pass (loose: the fallback pass)
BareInFallback(j) == j = Len(text_lines) \/ LooseKind(text_lines[j + 1]) # "None"
BareInStrict(j) == j = Len(text_lines) \/ StrictMarker(j + 1)

\* C28: a Section in the tree the fallback pass returns has content; a line
\* the fallback pass reads as a Section marker, followed directly by a marker
\* line or by the end of the lines, has no Section in that tree.  In the
\* result of the strict pass a Section marker read while a Chapter is open and
\* followed directly by a marker line or the end has its Section, with
\* content "".
C28_EmptySectionKeptOnlyByStrict ==
    /\ ReturnedFallback =>
          /\ \A s \in TreeSections(act) :
                /\ Len(s.content) > 0
                /\ LooseKind(text_lines[s.src]) = "Section"
                /\ ~BareInFallback(s.src)
          /\ \A j \in 1..Len(text_lines) :
                (LooseKind(text_lines[j]) = "Section" /\ BareInFallback(j)) =>
                    \A s \in TreeSections(act) : s.src # j
    /\ StrictOver =>
          \A j \in 1..Len(text_lines) :
              (section_pattern(text_lines[j]) /\ ~OpenedWithoutChapter(j) /\ BareInStrict(j)) =>
                  \E s \in TreeSections(strict_result) :
                      s.src = j /\ s.content = <<>> /\ s.clauses = <<>>

\* the fallback pass returned a tree that holds a Section, after it read a
\* Section marker followed directly by another marker line
C28_Witness ==
    /\ ReturnedFallback
    /\ TreeSections(act) # {}
    /\ \E j \in 1..(Len(text_lines) - 1) :
          /\ LooseKind(text_lines[j]) = "Section"
          /\ BareInFallback(j)
          /\ \A s \in TreeSections(act) : s.src # j

\* the lines buffered for the Section made at line j by the pass that returned
BufferOf(j) == IF fallback_runs = 0 THEN LinesAfter(j) ELSE FbLinesAfter(j)
\* what detect_clauses is given: the buffered lines, one per line in the strict
\* pass, all in one line in the fallback pass
SegmentedLines(j) ==
    IF fallback_runs = 0 THEN BufferOf(j)
    ELSE IF Len(BufferOf(j)) = 0 THEN <<>> ELSE <<Spaced(BufferOf(j))>>
\* the index of the first clause-opening line of buf
FirstClauseLine(buf) == CHOOSE f \in ClauseLines(buf) : \A g \in ClauseLines(buf) : f <= g
\* the number of characters in the contents of a list of Clauses
RECURSIVE ClauseText(_)
ClauseText(cs) == IF Len(cs) = 0 THEN 0 ELSE Len(cs[1].content) + ClauseText(Tail(cs))

\* x begins with y
StartsWith(x, y) == Len(x) >= Len(y) /\ SubSeq(x, 1, Len(y)) = y

\* C29: the content of a returned Section is all its buffered lines, joined,
\* whether it has Clauses or not; if it has Clauses, they are those of the
\* lines from the first clause-opening line on, one per clause-opening line,
\* the first one starting with the text after the label of that line: the
\* lines before that line are in no Clause.
C29_LeadingLinesInNoClause ==
    Returned =>
        \A s \in TreeSections(act) :
            /\ s.content = Join(IF fallback_runs = 0 THEN NewLine ELSE Blank, BufferOf(s.src))
            /\ Len(s.clauses) = Cardinality(ClauseLines(SegmentedLines(s.src)))
            /\ Len(s.clauses) > 0 =>
                  /\ s.clauses =
                        detect_clauses(Join(NewLine,
                            SubSeq(SegmentedLines(s.src),
                                   FirstClauseLine(SegmentedLines(s.src)),
                                   Len(SegmentedLines(s.src)))))
                  /\ StartsWith(s.clauses[1].content,
                                AfterLabel(SegmentedLines(s.src)
                                               [FirstClauseLine(SegmentedLines(s.src))]))

\* a returned Section whose first buffered line opens no Clause and whose
\* second does: its one Clause holds less text than its content
C29_Witness ==
    /\ Returned
    /\ \E s \in TreeSections(act) :
          /\ Len(s.clauses) = 1
          /\ Len(BufferOf(s.src)) >= 2
          /\ FirstClauseLine(BufferOf(s.src)) = 2
          /\ ClauseText(s.clauses) < Len(s.content) - Len(BufferOf(s.src)[1])

\* a tree without the Clauses of its Sections and without what belongs to the
\* Act alone (title, year)
BareSection(x) ==
    [section_number |-> x.section_number, title |-> x.title, content |-> x.content,
     src |-> x.src]
BareChapter(c) ==
    [chapter_number |-> c.chapter_number, title |-> c.title, src |-> c.src,
     sections |-> [n \in 1..Len(c.sections) |-> BareSection(c.sections[n])]]
BarePart(q) ==
    [part_number |-> q.part_number, title |-> q.title, src |-> q.src,
     chapters |-> [n \in 1..Len(q.chapters) |-> BareChapter(q.chapters[n])]]
BareTree(a) ==
    [parts |-> [n \in 1..Len(a.parts) |-> BarePart(a.parts[n])],
     chapters |-> [n \in 1..Len(a.chapters) |-> BareChapter(a.chapters[n])]]
BothReturned == pc = "done" /\ html.pc = "done"

\* C30: on the same lines NepaliHTMLParser.parse returns the Parts, Chapters
\* and Sections of the strict pass of NepaliLegalParser.parse (numbers,
\* titles, content, order, nesting), none of its Sections has a Clause, and
\* with no Part or Chapter marker of the strict pass in the lines its Act has
\* no Part and no Chapter, whatever the fallback pass made of them.
C30_HtmlIsStrictWithoutClauses ==
    BothReturned =>
        /\ BareTree(html.act) = BareTree(strict_result)
        /\ \A s \in TreeSections(html.act) : s.clauses = <<>>
        /\ (StrictPartLines = {} /\ StrictChapterLines = {}) =>
              /\ EmptyTree(html.act)
              /\ fallback_runs = 1

\* both have returned: the Section of the strict pass has a Clause and the
\* same Section of the HTML parser has none
C30_Witness ==
    /\ BothReturned
    /\ fallback_runs = 0
    /\ \E s \in TreeSections(act) : \E h \in TreeSections(html.act) :
          /\ s.src = h.src
          /\ Len(s.clauses) >= 1
          /\ h.clauses = <<>>
          /\ h.content = s.content /\ Len(h.content) > 0

====
